---- MODULE Spec2Model ----
(***************************************************************************)
(* Model of the synthetic market-data hub: TradingDataManager (connection  *)
(* set, subscription registry, one generator per symbol, one setInterval   *)
(* timer per started stream), the generator's realtime tick and the        *)
(* ClusterEngine significance gate.                                        *)
(*                                                                         *)
(* Prices are integers (price units); the gate's relative threshold        *)
(* 0.0005 is the exact rational 5/10000, compared by cross-multiplication. *)
(* Awaited persistence calls are separate steps: each await either         *)
(* resolves or rejects, chosen by the environment.                         *)
(***************************************************************************)
EXTENDS Integers, Sequences, FiniteSets, TLC

\* ------------------------------------------------------------------ bounds
MaxStreams == 2      \* startDataStream invocations explored
MaxCandles == 2      \* accepted realtime ticks explored
SeedCandles == 1     \* awaited seed writes per stream (the code seeds 50)
MaxFaults == 1       \* rejected writes and throwing sends explored

\* --------------------------------------------------------------- universes
Conns == {"ws1", "ws2"}
Symbols == {"BTCUSDT"}
Intervals == {"1m"}
GateSymbols == {"BTCUSDT", "ETHUSDT"}
\* draws of the simulated price around the BTCUSDT base price
Prices == {67500, 67540}
\* prices offered to the gate on its own: 68000 -> 68034 is exactly 0.05%
GatePrices == {68000, 68033, 68034, 68035, 68070}

VARIABLES
    readyState,        \* socket state of every connection object
    connections,       \* TradingDataManager.connections
    subscriptions,     \* Map key -> Set<WebSocket> (insertion ordered)
    dataGenerators,    \* Map symbol -> TestDataGenerator
    updateIntervals,   \* Map key -> timer handle
    streams,           \* startDataStream invocations, by handle
    activeTimers,      \* handles of setInterval timers not yet cleared
    ticks,             \* tick callbacks that produced a candle, by candle number
    sent,              \* broadcastToSubscribers calls, in order
    saved,             \* writes that reached the persistence adapter
    faults,            \* rejected writes and throwing sends so far
    engine,            \* a ClusterEngine's lastProcessedPrice map
    gateCall,          \* last shouldRefreshClusters call on engine
    generators,        \* Map symbol -> TestDataGenerator, with all its fields
    genRet,            \* what the last generator call returned
    genLog,            \* candles handed out by the generator so far
    storage,           \* persisted candles and order books, by key / symbol
    histCall,          \* the getHistoricalData call in progress
    input,             \* arguments of a pure ClusterEngine function
    output,            \* its result
    clusterCache,      \* a ClusterEngine's clusterCache map
    now                \* Date.now(), in ms since the server started

hubVars == <<readyState, connections, subscriptions, dataGenerators,
             updateIntervals, streams, activeTimers, ticks, sent, saved,
             faults>>
gateVars == <<engine, gateCall>>
auxVars == <<generators, genRet, genLog, storage, histCall, input, output,
             clusterCache, now>>
vars == <<readyState, connections, subscriptions, dataGenerators,
          updateIntervals, streams, activeTimers, ticks, sent, saved,
          faults, engine, gateCall, generators, genRet, genLog, storage,
          histCall, input, output, clusterCache, now>>

\* ------------------------------------------------------------ Map helpers
EmptyMap == [x \in {} |-> 0]
MapSet(m, k, v) == [x \in (DOMAIN m) \cup {k} |-> IF x = k THEN v ELSE m[x]]
MapDelete(m, ks) == [x \in (DOMAIN m) \ ks |-> m[x]]

\* Set<WebSocket>: JS sets iterate in insertion order
SetHas(s, e) == \E i \in 1..Len(s) : s[i] = e
SetAdd(s, e) == IF SetHas(s, e) THEN s ELSE Append(s, e)
SetDelete(s, e) == SelectSeq(s, LAMBDA x : x # e)
Elems(s) == {s[i] : i \in 1..Len(s)}

Abs(x) == IF x < 0 THEN -x ELSE x

\* `${symbol}_${interval}`
Key(symbol, interval) == <<symbol, interval>>
KeySymbol(key) == key[1]
Keys == {Key(s, i) : s \in Symbols, i \in Intervals}

\* ------------------------------------------------------------ ClusterEngine
\* shouldRefreshClusters: returns the verdict and the updated map
shouldRefreshClustersGE(lastProcessedPrice, symbol, currentPrice) ==
    IF symbol \notin DOMAIN lastProcessedPrice \/ lastProcessedPrice[symbol] = 0
    THEN [ret |-> TRUE, map |-> MapSet(lastProcessedPrice, symbol, currentPrice)]
    ELSE LET lastPrice == lastProcessedPrice[symbol] IN
         IF lastPrice > 0 /\ Abs(currentPrice - lastPrice) * 10000 >= 5 * lastPrice
         THEN [ret |-> TRUE, map |-> MapSet(lastProcessedPrice, symbol, currentPrice)]
         ELSE [ret |-> FALSE, map |-> lastProcessedPrice]

shouldRefreshClusters(lastProcessedPrice, symbol, currentPrice) ==
    IF symbol \notin DOMAIN lastProcessedPrice \/ lastProcessedPrice[symbol] = 0
    THEN [ret |-> TRUE, map |-> MapSet(lastProcessedPrice, symbol, currentPrice)]
    ELSE LET lastPrice == lastProcessedPrice[symbol] IN
         \* |currentPrice - lastPrice| / lastPrice > 0.0005
         IF lastPrice > 0 /\ Abs(currentPrice - lastPrice) * 10000 > 5 * lastPrice
         THEN [ret |-> TRUE, map |-> MapSet(lastProcessedPrice, symbol, currentPrice)]
         ELSE [ret |-> FALSE, map |-> lastProcessedPrice]

\* -------------------------------------------------------- TestDataGenerator
getBasePriceForSymbol(symbol) ==
    IF symbol = "BTCUSDT" THEN 67500
    ELSE IF symbol = "ETHUSDT" THEN 3200
    ELSE IF symbol = "LTCUSDT" THEN 95
    ELSE 100

\* new TestDataGenerator(basePrice): own engine, empty gate cache
NewGenerator(initialPrice) ==
    [currentPrice |-> initialPrice, lastProcessedPrice |-> EmptyMap]

\* generateHistoricalCandles: the walk ends at a drawn price, which becomes
\* currentPrice; the gate cache is not touched
generateHistoricalCandles(g, endPrice) == [g EXCEPT !.currentPrice = endPrice]

\* generateRealtimeUpdate: simulatePriceMovement draws newPrice, then the
\* gate (always asked under the symbol 'BTCUSDT') decides
generateRealtimeUpdate(g, newPrice) ==
    LET r == shouldRefreshClusters(g.lastProcessedPrice, "BTCUSDT", newPrice) IN
    [gen |-> [g EXCEPT !.currentPrice = newPrice, !.lastProcessedPrice = r.map],
     candle |-> r.ret]

\* ------------------------------------------------------ TradingDataManager
getOrCreateGenerator(gens, symbol) ==
    IF symbol \in DOMAIN gens THEN gens
    ELSE MapSet(gens, symbol, NewGenerator(getBasePriceForSymbol(symbol)))

addConnection(ws) ==
    /\ readyState[ws] = "NONE"
    /\ readyState' = [readyState EXCEPT ![ws] = "OPEN"]
    /\ connections' = connections \cup {ws}
    /\ UNCHANGED <<subscriptions, dataGenerators, updateIntervals, streams,
                   activeTimers, ticks, sent, saved>>
    /\ UNCHANGED <<faults, engine, gateCall, auxVars>>

\* keys whose subscriber set becomes empty when ws is deleted from it
EmptiedBy(ws) ==
    {k \in DOMAIN subscriptions : SetDelete(subscriptions[k], ws) = <<>>}

\* removeConnection without the stopDataStream calls
removeConnectionNoStop(ws) ==
    /\ connections' = connections \ {ws}
    /\ subscriptions' = [k \in DOMAIN subscriptions |-> SetDelete(subscriptions[k], ws)]
    /\ UNCHANGED <<updateIntervals, activeTimers>>
    /\ UNCHANGED <<dataGenerators, streams, ticks, sent, saved>>
    /\ UNCHANGED <<faults, engine, gateCall, auxVars>>

\* removeConnection with the stopDataStream calls it makes
removeConnectionEffect(ws) ==
    LET emptied == EmptiedBy(ws)
        cleared == {updateIntervals[k] : k \in emptied \cap DOMAIN updateIntervals}
    IN
    /\ connections' = connections \ {ws}
    /\ subscriptions' = [k \in (DOMAIN subscriptions) \ emptied |->
                            SetDelete(subscriptions[k], ws)]
    /\ updateIntervals' = MapDelete(updateIntervals, emptied)
    /\ activeTimers' = activeTimers \ cleared
    /\ UNCHANGED <<dataGenerators, streams, ticks, sent, saved>>
    /\ UNCHANGED <<faults, engine, gateCall, auxVars>>

\* the socket leaves OPEN before any handler runs
SocketClosing(ws) ==
    /\ readyState[ws] = "OPEN"
    /\ readyState' = [readyState EXCEPT ![ws] = "CLOSING"]
    /\ UNCHANGED <<connections, subscriptions, dataGenerators, updateIntervals,
                   streams, activeTimers, ticks, sent, saved>>
    /\ UNCHANGED <<faults, engine, gateCall, auxVars>>

\* ws.on('error')
OnError(ws) ==
    /\ readyState[ws] \in {"OPEN", "CLOSING"}
    /\ readyState' = [readyState EXCEPT ![ws] = "CLOSING"]
    /\ removeConnectionEffect(ws)

\* ws.on('close')
OnClose(ws) ==
    /\ readyState[ws] \in {"OPEN", "CLOSING"}
    /\ readyState' = [readyState EXCEPT ![ws] = "CLOSED"]
    /\ removeConnectionEffect(ws)

\* subscribeToSymbol, with the synchronous head of startDataStream when the
\* subscriber set has size 1 after the add
subscribeToSymbol(symbol, interval, ws, endPrice) ==
    LET key == Key(symbol, interval)
        before == IF key \in DOMAIN subscriptions THEN subscriptions[key] ELSE <<>>
        after == SetAdd(before, ws)
    IN
    /\ readyState[ws] = "OPEN"
    /\ subscriptions' = MapSet(subscriptions, key, after)
    /\ IF Len(after) = 1
       THEN /\ Len(streams) < MaxStreams
            /\ dataGenerators' =
                 LET gens == getOrCreateGenerator(dataGenerators, symbol) IN
                 [gens EXCEPT ![symbol] = generateHistoricalCandles(gens[symbol], endPrice)]
            /\ streams' = Append(streams, [key |-> key, left |-> SeedCandles,
                                           pc |-> "seeding"])
       ELSE UNCHANGED <<dataGenerators, streams>>
    /\ UNCHANGED <<readyState, connections, updateIntervals, activeTimers,
                   ticks, sent, saved>>
    /\ UNCHANGED <<faults, engine, gateCall, auxVars>>

\* one awaited storage.saveCandleData of the seed loop resolves; after the
\* last one the function goes on to setInterval and updateIntervals.set
SeedSaved(id) ==
    /\ id \in 1..Len(streams)
    /\ streams[id].pc = "seeding"
    /\ IF streams[id].left > 1
       THEN /\ streams' = [streams EXCEPT ![id].left = @ - 1]
            /\ UNCHANGED <<updateIntervals, activeTimers>>
       ELSE /\ streams' = [streams EXCEPT ![id].left = 0, ![id].pc = "scheduled"]
            /\ activeTimers' = activeTimers \cup {id}
            /\ updateIntervals' = MapSet(updateIntervals, streams[id].key, id)
    /\ UNCHANGED <<readyState, connections, subscriptions, dataGenerators,
                   ticks, sent, saved>>
    /\ UNCHANGED <<faults, engine, gateCall, auxVars>>

\* an awaited seed write rejects: startDataStream rejects, no timer is set
SeedSaveFailed(id) ==
    /\ id \in 1..Len(streams)
    /\ streams[id].pc = "seeding"
    /\ faults < MaxFaults
    /\ faults' = faults + 1
    /\ streams' = [streams EXCEPT ![id].pc = "rejected"]
    /\ UNCHANGED <<readyState, connections, subscriptions, dataGenerators,
                   updateIntervals, activeTimers, ticks, sent, saved>>
    /\ UNCHANGED <<gateVars, auxVars>>

\* the timer fires: the callback runs up to its first await
TimerFire(id, newPrice) ==
    LET key == streams[id].key
        symbol == KeySymbol(key)
    IN
    /\ id \in activeTimers
    /\ Len(ticks) < MaxCandles
    /\ IF key \notin DOMAIN subscriptions
       THEN UNCHANGED <<dataGenerators, ticks>>
       ELSE LET r == generateRealtimeUpdate(dataGenerators[symbol], newPrice) IN
            /\ dataGenerators' = [dataGenerators EXCEPT ![symbol] = r.gen]
            /\ ticks' = IF r.candle
                        THEN Append(ticks, [timer |-> id, key |-> key,
                                            pc |-> "saveCandle"])
                        ELSE ticks
    /\ UNCHANGED <<readyState, connections, subscriptions, updateIntervals,
                   streams, activeTimers, sent, saved>>
    /\ UNCHANGED <<faults, engine, gateCall, auxVars>>

\* broadcastToSubscribers: recipients in iteration order up to the first
\* client whose send throws
OpenSubscribers(key) ==
    IF key \in DOMAIN subscriptions
    THEN SelectSeq(subscriptions[key], LAMBDA c : readyState[c] = "OPEN")
    ELSE <<>>

ThrowAt(key, thrower) ==
    LET os == OpenSubscribers(key) IN
    IF \E i \in 1..Len(os) : os[i] = thrower
    THEN CHOOSE i \in 1..Len(os) : os[i] = thrower
    ELSE 0

broadcastToSubscribers(key, thrower) ==
    LET os == OpenSubscribers(key)
        at == ThrowAt(key, thrower)
    IN [to |-> IF at = 0 THEN os ELSE SubSeq(os, 1, at - 1), threw |-> at # 0]

Frame(type, t, to) == [type |-> type, key |-> ticks[t].key, candle |-> t, to |-> to]

\* the awaited storage.saveCandleData of tick t resolves: the order book is
\* generated and its save awaited
CandleSaved(t) ==
    /\ t \in 1..Len(ticks)
    /\ ticks[t].pc = "saveCandle"
    /\ saved' = saved \cup {<<"candle", t>>}
    /\ ticks' = [ticks EXCEPT ![t].pc = "saveOrderBook"]
    /\ UNCHANGED <<readyState, connections, subscriptions, dataGenerators,
                   updateIntervals, streams, activeTimers, sent>>
    /\ UNCHANGED <<faults, engine, gateCall, auxVars>>

\* a rejected save that would also take the key's timer down
SaveFailedStopsTimer(t) ==
    /\ t \in 1..Len(ticks)
    /\ ticks[t].pc \in {"saveCandle", "saveOrderBook"}
    /\ faults < MaxFaults
    /\ faults' = faults + 1
    /\ ticks' = [ticks EXCEPT ![t].pc = "saveFailed"]
    /\ activeTimers' = activeTimers \ {ticks[t].timer}
    /\ UNCHANGED <<readyState, connections, subscriptions, dataGenerators,
                   updateIntervals, streams, sent, saved>>
    /\ UNCHANGED <<gateVars, auxVars>>

\* an awaited save of tick t rejects: control goes to the catch block
SaveFailed(t) ==
    /\ t \in 1..Len(ticks)
    /\ ticks[t].pc \in {"saveCandle", "saveOrderBook"}
    /\ faults < MaxFaults
    /\ faults' = faults + 1
    /\ ticks' = [ticks EXCEPT ![t].pc = "saveFailed"]
    /\ UNCHANGED <<readyState, connections, subscriptions, dataGenerators,
                   updateIntervals, streams, activeTimers, sent, saved>>
    /\ UNCHANGED <<gateVars, auxVars>>

\* the awaited storage.saveOrderBookData resolves: both frames are broadcast;
\* th1, th2 name the client (if any) whose send throws on each frame
OrderBookSaved(t, th1, th2) ==
    LET key == ticks[t].key
        b1 == broadcastToSubscribers(key, th1)
        b2 == broadcastToSubscribers(key, th2)
        threw == b1.threw \/ b2.threw
    IN
    /\ t \in 1..Len(ticks)
    /\ ticks[t].pc = "saveOrderBook"
    /\ b1.threw => th2 = th1
    /\ threw => faults < MaxFaults
    /\ saved' = saved \cup {<<"orderbook", t>>}
    /\ sent' = IF b1.threw
               THEN Append(sent, Frame("candle_update", t, b1.to))
               ELSE sent \o <<Frame("candle_update", t, b1.to),
                              Frame("orderbook_update", t, b2.to)>>
    /\ ticks' = [ticks EXCEPT ![t].pc = IF threw THEN "sendFailed" ELSE "done"]
    /\ faults' = IF threw THEN faults + 1 ELSE faults
    /\ UNCHANGED <<readyState, connections, subscriptions, dataGenerators,
                   updateIntervals, streams, activeTimers>>
    /\ UNCHANGED <<gateVars, auxVars>>

Throwers == Conns \cup {"nobody"}

HubInit ==
    /\ readyState = [c \in Conns |-> "NONE"]
    /\ connections = {}
    /\ subscriptions = EmptyMap
    /\ dataGenerators = EmptyMap
    /\ updateIntervals = EmptyMap
    /\ streams = <<>>
    /\ activeTimers = {}
    /\ ticks = <<>>
    /\ sent = <<>>
    /\ saved = {}
    /\ faults = 0

GateInit ==
    /\ engine = EmptyMap
    /\ clusterCache = EmptyMap
    /\ now = 0
    /\ gateCall = [symbol |-> "BTCUSDT", price |-> 0, had |-> FALSE, last |-> 0,
                   ret |-> FALSE]

GenInit ==
    /\ generators = EmptyMap
    /\ genRet = [op |-> "none"]
    /\ genLog = [ticks |-> 0, emitted |-> <<>>, backfilled |-> <<>>]

HistInit ==
    /\ storage = [candles |-> EmptyMap, orderBook |-> {}]
    /\ histCall = [pc |-> "idle"]

PureInit ==
    /\ input = [op |-> "none"]
    /\ output = [op |-> "none"]

AuxInit == GenInit /\ HistInit /\ PureInit

Init ==
    /\ HubInit
    /\ GateInit
    /\ AuxInit

Next ==
    \/ \E ws \in Conns : addConnection(ws)
    \/ \E ws \in Conns : SocketClosing(ws)
    \/ \E ws \in Conns : OnError(ws)
    \/ \E ws \in Conns : OnClose(ws)
    \/ \E s \in Symbols, i \in Intervals, ws \in Conns, p \in Prices :
          subscribeToSymbol(s, i, ws, p)
    \/ \E id \in 1..MaxStreams : SeedSaved(id)
    \/ \E id \in 1..MaxStreams : SeedSaveFailed(id)
    \/ \E id \in 1..MaxStreams, p \in Prices : TimerFire(id, p)
    \/ \E t \in 1..MaxCandles : CandleSaved(t)
    \/ \E t \in 1..MaxCandles : SaveFailed(t)
    \/ \E t \in 1..MaxCandles, th1 \in Throwers, th2 \in Throwers :
          OrderBookSaved(t, th1, th2)

Spec == Init /\ [][Next]_vars

\* ------------------------------------------- the significance gate alone
\* one ClusterEngine called with any symbol and any positive price
GateCall(symbol, price) ==
    LET r == shouldRefreshClusters(engine, symbol, price)
        had == symbol \in DOMAIN engine
    IN
    /\ engine' = r.map
    /\ gateCall' = [symbol |-> symbol, price |-> price, had |-> had,
                    last |-> IF had THEN engine[symbol] ELSE 0, ret |-> r.ret]
    /\ UNCHANGED <<hubVars, auxVars>>

GateNext == \E symbol \in GateSymbols, price \in GatePrices : GateCall(symbol, price)

SpecGate == Init /\ [][GateNext]_vars

\* ------------------------------------------------------------------ claims
LiveTimers(k) == {id \in activeTimers : streams[id].key = k}
Seeding(k) == {id \in 1..Len(streams) : streams[id].key = k /\ streams[id].pc = "seeding"}
InProgress(k) == {t \in 1..Len(ticks) :
                    ticks[t].key = k /\ ticks[t].pc \in {"saveCandle", "saveOrderBook"}}
Terminal(t) == ticks[t].pc \in {"done", "sendFailed", "saveFailed"}
FramesOf(t) == SelectSeq(sent, LAMBDA f : f.candle = t)
\* connection c was handed both frames of candle t, candle_update first
Received(c, t) ==
    \E i, j \in 1..Len(sent) :
        /\ i < j
        /\ sent[i].candle = t /\ sent[i].type = "candle_update" /\ SetHas(sent[i].to, c)
        /\ sent[j].candle = t /\ sent[j].type = "orderbook_update" /\ SetHas(sent[j].to, c)

\* the frame types handed to connection c for candle t, in order
Deliveries(c, t) ==
    LET fs == SelectSeq(sent, LAMBDA f : f.candle = t /\ SetHas(f.to, c))
    IN [i \in 1..Len(fs) |-> fs[i].type]

\* C1: at every reachable state a (symbol,interval) key has at most one live
\* update timer, whatever sequence of subscribe and remove calls came before
C1_AtMostOneLiveTimer == \A k \in Keys : Cardinality(LiveTimers(k)) <= 1

\* C2: subscribing a connection that is already in the key's subscriber set
\* changes neither the set nor the started streams nor the generator (no
\* additional loop, no additional seeding backfill)
C2_SubscribeIdempotent ==
    [][\A s \in Symbols, i \in Intervals, ws \in Conns, p \in Prices :
          ( /\ Key(s, i) \in DOMAIN subscriptions
            /\ SetHas(subscriptions[Key(s, i)], ws)
            /\ subscribeToSymbol(s, i, ws, p) )
          => /\ subscriptions' = subscriptions
             /\ streams' = streams
             /\ dataGenerators' = dataGenerators]_vars

\* C3: a key without subscribers whose seeding has finished has no live
\* timer: removing the last subscriber always stops the loop, also when the
\* removal came while the seed writes were still awaited
C3_StoppedOnceSeeded ==
    \A k \in Keys :
        (k \notin DOMAIN subscriptions /\ Seeding(k) = {}) => LiveTimers(k) = {}

\* C4: every frame and every write belongs to a tick that produced a candle,
\* and every finished tick that produced a candle has written the candle and
\* the order book and broadcast candle_update followed by orderbook_update,
\* once each
C4_AcceptedTickPersistsAndBroadcasts ==
    /\ \A i \in 1..Len(sent) : sent[i].candle \in 1..Len(ticks)
    /\ \A w \in saved : w[2] \in 1..Len(ticks)
    /\ \A t \in 1..Len(ticks) :
          Terminal(t) =>
             /\ {<<"candle", t>>, <<"orderbook", t>>} \subseteq saved
             /\ Len(FramesOf(t)) = 2
             /\ FramesOf(t)[1].type = "candle_update"
             /\ FramesOf(t)[2].type = "orderbook_update"

\* C5: the gate's contract. An unseen symbol is accepted and recorded; with
\* a recorded price P, a price within 0.05% of P (inclusive) is rejected and
\* P stays recorded, a price further away is accepted and recorded
C5_GateContract ==
    gateCall.price # 0 =>
       LET P == gateCall.last
           p == gateCall.price
           s == gateCall.symbol
       IN
       /\ ~gateCall.had => (gateCall.ret /\ engine[s] = p)
       /\ (gateCall.had /\ Abs(p - P) * 10000 <= 5 * P) =>
              (~gateCall.ret /\ engine[s] = P)
       /\ (gateCall.had /\ Abs(p - P) * 10000 > 5 * P) =>
              (gateCall.ret /\ engine[s] = p)

\* a call exactly on the threshold (68000 -> 68034) after earlier calls
C5_Witness ==
    /\ gateCall.had
    /\ gateCall.last # gateCall.price
    /\ Abs(gateCall.price - gateCall.last) * 10000 = 5 * gateCall.last
    /\ ~gateCall.ret
    /\ DOMAIN engine = GateSymbols

\* C6: when an awaited save of a tick rejects, every open subscriber of the
\* key still receives the tick's candle_update and orderbook_update
C6_SaveFailureStillBroadcasts ==
    [][\A t \in 1..Len(ticks) :
          (ticks[t].pc \in {"saveCandle", "saveOrderBook"} /\ ticks'[t].pc = "saveFailed")
          => \A c \in Elems(OpenSubscribers(ticks[t].key)) : Received(c, t)']_vars

\* C7: the candle_update frames of one key are broadcast in the order in
\* which their candles were generated
C7_BroadcastInGenerationOrder ==
    \A i, j \in 1..Len(sent) :
        ( /\ i < j
          /\ sent[i].key = sent[j].key
          /\ sent[i].type = "candle_update"
          /\ sent[j].type = "candle_update" )
        => sent[i].candle < sent[j].candle

\* C8: at no time are two tick callbacks of the same key in progress
C8_NoOverlappingTicks == \A k \in Keys : Cardinality(InProgress(k)) <= 1

\* C9: when a tick broadcasts, every connection that is subscribed under the
\* key and open at that time is handed candle_update and then
\* orderbook_update, once each, and every connection that is not an open
\* subscriber of the key is handed nothing (a connection whose own send
\* throws is not counted)
C9_ExactlyOnceToOpenSubscribers ==
    [][\A t \in 1..Len(ticks), th1 \in Throwers, th2 \in Throwers :
          OrderBookSaved(t, th1, th2)
          => \A c \in Conns \ {th1, th2} :
                Deliveries(c, t)' =
                   IF c \in Elems(OpenSubscribers(ticks[t].key))
                   THEN <<"candle_update", "orderbook_update">>
                   ELSE <<>>]_vars

\* C10: a closed connection is skipped, and a connection whose send throws
\* keeps neither the frame nor the following orderbook_update from the
\* other open subscribers of the key
C10_SendFailureIsolated ==
    [][\A t \in 1..Len(ticks), th1 \in Throwers, th2 \in Throwers :
          OrderBookSaved(t, th1, th2)
          => /\ \A c \in Elems(OpenSubscribers(ticks[t].key)) \ {th1, th2} :
                   Received(c, t)'
             /\ \A i \in 1..Len(sent') :
                   \A c \in Elems(sent'[i].to) : i > Len(sent) => readyState[c] = "OPEN"]_vars

\* ================================================= ClusterEngine, numerics
\* Fixed point: prices, ATR and volumes are integers counted in thousandths
\* (Scale = 1.0); a Math.random() value is an integer 0..999 (thousandths);
\* ratios are in thousandths, relative price changes in millionths. Results
\* are rounded down where the code keeps a fraction.
Scale == 1000
\* calculateATR's default period
ATRPeriod == 14
\* the value calculateATR returns without history: 0.001
ATRDefault == 1

Min(a, b) == IF a < b THEN a ELSE b
Max(a, b) == IF a > b THEN a ELSE b

\* floor(a * 1000000 / c) and floor(a * x / 1000000), in steps that stay
\* within 32 bits
Ppm(a, c) ==
    LET rem == a % c
        rem2 == (rem * 1000) % c
    IN (a \div c) * 1000000 + ((rem * 1000) \div c) * 1000 + (rem2 * 1000) \div c
MulPpm(a, x) == (a * (x \div 1000) + (a * (x % 1000)) \div 1000) \div 1000

RECURSIVE SumTo(_, _)
\* f(1) + ... + f(n)
SumTo(f, n) == IF n = 0 THEN 0 ELSE f[n] + SumTo(f, n - 1)

\* calculateATR: JS pairs (i-1, i) for i = 1 .. min(length, period+1) - 1
calculateATR(candles, period) ==
    IF Len(candles) < 2 THEN ATRDefault
    ELSE LET n == Min(Len(candles), period + 1) - 1
             tr == [i \in 1..n |->
                      LET current == candles[i + 1]
                          previous == candles[i]
                      IN Max(current.high - current.low,
                             Max(Abs(current.high - previous.close),
                                 Abs(current.low - previous.close)))]
         IN SumTo(tr, n) \div n

\* Math.max(5, Math.min(25, Math.floor(priceRange / (atr * 0.5)))).
\* x/0 is Infinity for x > 0 (count 25); 0/0 is NaN, which Math.min and
\* Math.max pass on, and `i < NaN` is false: the loop makes no cluster
optimalClusters(priceRange, atr) ==
    IF atr = 0
    THEN IF priceRange = 0 THEN 0 ELSE 25
    ELSE Max(5, Min(25, (2 * priceRange) \div atr))

\* one cluster of generateAdaptiveClusters; i counts from 0; m and b are the
\* two random values drawn for it. With priceRange = 0 the middle weight and
\* the price position are 0/0, so volume, buyVolume, sellVolume and delta
\* are NaN (nan = TRUE) and aggression is 0
makeCluster(i, n, low, high, totalVolume, totalBuyVolume, currentPrice, m, b) ==
    LET priceRange == high - low
        price == low + (priceRange * (2 * i + 1)) \div (2 * n)
    IN
    IF priceRange = 0
    THEN [price |-> price, volume |-> 0, buyVolume |-> 0, sellVolume |-> 0,
          delta |-> 0, aggression |-> 0, nan |-> TRUE]
    ELSE
    LET distanceFromCurrent == Abs(price - currentPrice)
        distanceFromMiddle2 == Abs(2 * price - (high + low))
        currentPriceWeight == (1000 * currentPrice) \div (currentPrice + distanceFromCurrent)
        middleWeight == 1000 - (1000 * distanceFromMiddle2) \div priceRange
        importance == (6 * currentPriceWeight + 4 * middleWeight) \div 10
        volumeMultiplier == (importance * (700 + (600 * m) \div 1000)) \div 1000
        volume == ((totalVolume \div n) * volumeMultiplier) \div 1000
        baseRatio == (1000 * totalBuyVolume) \div totalVolume
        pricePosition == (1000 * (price - low)) \div priceRange
        positionBias == IF pricePosition < 500
                        THEN (1000 - pricePosition) \div 5
                        ELSE 0 - (pricePosition \div 5)
        buyRatio == Max(100, Min(900, baseRatio + positionBias + (b - 500) \div 10))
        buyVolume == (volume * buyRatio) \div 1000
        sellVolume == volume - buyVolume
        delta == buyVolume - sellVolume
    IN [price |-> price, volume |-> volume, buyVolume |-> buyVolume,
        sellVolume |-> sellVolume, delta |-> delta,
        aggression |-> IF volume > 0 THEN (1000 * Abs(delta)) \div volume ELSE 0,
        nan |-> FALSE]

RECURSIVE InsertDesc(_, _)
\* insert c behind every element of the sorted sequence that does not have a
\* smaller volume (Array.prototype.sort is stable)
InsertDesc(sorted, c) ==
    IF sorted = <<>> THEN <<c>>
    ELSE IF Head(sorted).volume >= c.volume
         THEN <<Head(sorted)>> \o InsertDesc(Tail(sorted), c)
         ELSE <<c>> \o sorted

RECURSIVE SortByVolumeDesc(_)
\* clusters.sort((a, b) => b.volume - a.volume); with NaN volumes every
\* comparison is NaN and the order is kept
SortByVolumeDesc(cs) ==
    IF cs = <<>> THEN <<>>
    ELSE IF cs[1].nan THEN cs
    ELSE InsertDesc(SortByVolumeDesc(SubSeq(cs, 1, Len(cs) - 1)), cs[Len(cs)])

\* generateAdaptiveClusters; rnd[i] = [m, b] are the draws of cluster i (from 1)
generateAdaptiveClusters(low, high, totalVolume, totalBuyVolume, totalSellVolume, atr, currentPrice, rnd) ==
    LET n == optimalClusters(high - low, atr)
        clusters == [i \in 1..n |->
                       makeCluster(i - 1, n, low, high, totalVolume, totalBuyVolume,
                                   currentPrice, rnd[i].m, rnd[i].b)]
    IN SortByVolumeDesc(clusters)

\* generateEnhancedCandle; d holds the random values in the order drawn:
\* trend, noise, wick (atrMultiplier), up, down, base (volume), ratio, and
\* the cluster draws rnd.  The steps of the function body follow.

\* priceChange = startPrice * (trend + (Math.random() - 0.5) * volatility)
candlePriceChange(startPrice, atr, d) ==
    LET volatility == Max(5000, Ppm(2 * atr, startPrice))
        trend == (d.trend - 500) * 5
    IN MulPpm(startPrice, trend + ((d.noise - 500) * volatility) \div 1000)

\* the close without the price floor
candleCloseNoFloor(open, priceChange) == open + priceChange

candleClose(open, priceChange) == Max(open + priceChange, Scale)

\* volume = baseVolume * (1 + |priceChange / startPrice| * 20)
candleVolume(startPrice, priceChange, d) ==
    LET baseVolume == 50 * Scale + 150 * d.base
        volatilityMultiplier == 1000 + (20000 * Abs(priceChange)) \div startPrice
    IN ((baseVolume \div 10) * volatilityMultiplier) \div 100

candleWicks(open, close, atr, d) ==
    LET wickRange == (atr * (500 + d.wick)) \div 1000
    IN [high |-> Max(open, close) + (d.up * wickRange) \div 1000,
        low |-> Min(open, close) - (d.down * wickRange) \div 1000]

candleBuyVolume(open, close, volume, d) ==
    LET isGreen == close > open
        buyRatio == IF isGreen THEN 550 + d.ratio \div 4 ELSE 250 + (3 * d.ratio) \div 10
    IN (volume * buyRatio) \div 1000

candleRecord(time, open, close, w, volume, buyVolume, atr, d) ==
    [time |-> time, open |-> open, high |-> w.high, low |-> w.low, close |-> close,
     volume |-> volume, buyVolume |-> buyVolume, sellVolume |-> volume - buyVolume,
     delta |-> buyVolume - (volume - buyVolume),
     clusters |-> generateAdaptiveClusters(w.low, w.high, volume, buyVolume,
                                           volume - buyVolume, atr, close, d.rnd)]

candleFromClose(time, open, close, volume, atr, d) ==
    candleRecord(time, open, close, candleWicks(open, close, atr, d), volume,
                 candleBuyVolume(open, close, volume, d), atr, d)

candleFromChange(time, startPrice, priceChange, atr, d) ==
    candleFromClose(time, startPrice, candleClose(startPrice, priceChange),
                    candleVolume(startPrice, priceChange, d), atr, d)

candleFromATR(time, startPrice, atr, d) ==
    candleFromChange(time, startPrice, candlePriceChange(startPrice, atr, d), atr, d)

generateEnhancedCandle(time, startPrice, historicalCandles, d) ==
    candleFromATR(time, startPrice, calculateATR(historicalCandles, ATRPeriod), d)

\* ------------------------------------------------ pure functions, one call each
\* the other components stay in their initial state
Idle == HubInit /\ GateInit /\ GenInit /\ HistInit
IdleUnchanged == UNCHANGED <<hubVars, gateVars, generators, genRet, genLog,
                             storage, histCall, clusterCache, now>>

RandomValues == {0, 500, 999}
\* per-cluster draws: constant, or alternating between the extremes
M0 == [i \in 1..25 |-> [m |-> 0, b |-> 0]]
M5 == [i \in 1..25 |-> [m |-> 500, b |-> 500]]
M9 == [i \in 1..25 |-> [m |-> 999, b |-> 999]]
MAlt == [i \in 1..25 |-> IF i % 2 = 1 THEN [m |-> 0, b |-> 999] ELSE [m |-> 999, b |-> 0]]
ClusterDraws == {M0, M5, M9, MAlt}

FlatCandle(t, p) ==
    [time |-> t, open |-> p, high |-> p, low |-> p, close |-> p, volume |-> 50000,
     buyVolume |-> 20000, sellVolume |-> 30000, delta |-> -10000, clusters |-> <<>>]
WideCandle(t, p, w) ==
    [time |-> t, open |-> p, high |-> p + w, low |-> p - w, close |-> p + w \div 2,
     volume |-> 50000, buyVolume |-> 30000, sellVolume |-> 20000, delta |-> 10000,
     clusters |-> <<>>]
\* candle windows offered as history: none, a flat one (ATR 0), a volatile one
Histories(p) ==
    { <<>>,
      <<FlatCandle(0, p), FlatCandle(60, p)>>,
      <<WideCandle(0, p, 20), WideCandle(60, p + 10, 50), WideCandle(120, p, 100)>> }

\* start prices: 0.85, 1.0 (at the floor), 45.0 and 100.0
StartPrices == {850, 1000, 45000, 100000}

CandleInputs ==
    [op : {"generateEnhancedCandle"}, time : {120}, startPrice : StartPrices,
     history : {1, 2, 3},
     trend : RandomValues, noise : RandomValues, wick : RandomValues,
     up : RandomValues, down : RandomValues, base : RandomValues,
     ratio : RandomValues, rnd : {MAlt}]

HistoryOf(in) ==
    CHOOSE h \in Histories(in.startPrice) :
        Len(h) = CASE in.history = 1 -> 0 [] in.history = 2 -> 2 [] OTHER -> 3

CandleInit == Idle /\ input \in CandleInputs /\ output = [op |-> "none"]

ApplyCandle ==
    /\ input.op = "generateEnhancedCandle"
    /\ output.op = "none"
    /\ output' = [op |-> "candle",
                  candle |-> generateEnhancedCandle(input.time, input.startPrice,
                                                    HistoryOf(input), input)]
    /\ UNCHANGED input
    /\ IdleUnchanged

SpecCandle == CandleInit /\ [][ApplyCandle]_vars

ClusterInputs ==
    [op : {"generateAdaptiveClusters"}, low : {100000},
     high : {100000, 100010, 101000, 110000},
     totalVolume : {100000, 1000000}, totalBuyVolume : {30000, 60000},
     atr : {0, 1, 100, 1000, 4000},
     currentPrice : {100000, 100400, 110000}, rnd : ClusterDraws]

ClustersInit ==
    /\ Idle
    /\ input \in {in \in ClusterInputs : in.currentPrice <= in.high \/ in.high = in.low}
    /\ output = [op |-> "none"]

ApplyClusters ==
    /\ input.op = "generateAdaptiveClusters"
    /\ output.op = "none"
    /\ output' = [op |-> "clusters",
                  clusters |-> generateAdaptiveClusters(
                                  input.low, input.high, input.totalVolume,
                                  input.totalBuyVolume,
                                  input.totalVolume - input.totalBuyVolume,
                                  input.atr, input.currentPrice, input.rnd)]
    /\ UNCHANGED input
    /\ IdleUnchanged

SpecClusters == ClustersInit /\ [][ApplyClusters]_vars

\* C14: every candle of generateEnhancedCandle has low <= min(open, close),
\* high >= max(open, close), close >= 1, volume = buyVolume + sellVolume and
\* delta = buyVolume - sellVolume
C14_CandleShape ==
    output.op = "candle" =>
       LET c == output.candle IN
       /\ c.low <= Min(c.open, c.close)
       /\ c.high >= Max(c.open, c.close)
       /\ c.close >= Scale
       /\ c.volume = c.buyVolume + c.sellVolume
       /\ c.delta = c.buyVolume - c.sellVolume

\* a candle opened below 1.0 whose computed close fell under the floor, with
\* wicks on both sides
C14_Witness ==
    /\ output.op = "candle"
    /\ input.startPrice < Scale
    /\ input.noise = 0
    /\ output.candle.close = Scale
    /\ output.candle.high > output.candle.close
    /\ output.candle.low < output.candle.open

RECURSIVE SumVolume(_)
SumVolume(cs) == IF cs = <<>> THEN 0 ELSE Head(cs).volume + SumVolume(Tail(cs))

\* C15: the number of clusters is within [5, 25], it is
\* clamp(floor((high-low)/(0.5*atr)), 5, 25), and the clusters come in
\* non-increasing order of (numeric) volume, also for high = low and atr = 0
C15_ClusterCountAndOrder ==
    output.op = "clusters" =>
       LET cs == output.clusters
           n == Len(cs)
       IN
       /\ n \in 5..25
       /\ input.atr > 0 => n = Max(5, Min(25, (2 * (input.high - input.low)) \div input.atr))
       /\ \A i \in 1..n : ~cs[i].nan
       /\ \A i \in 1..(n - 1) : cs[i].volume >= cs[i + 1].volume

\* C16: for a candle with high > low the cluster volumes add up to
\* totalVolume, within 1% for rounding
C16_ClusterVolumesAddUp ==
    output.op = "clusters" /\ input.high > input.low =>
       Abs(SumVolume(output.clusters) - input.totalVolume) * 100 <= input.totalVolume

\* ------------------------------------------------ filterDepth
DepthLevels == 50

\* level j comes before level i in the sorted array; desc = TRUE orders by
\* falling price, else by rising price, and equal prices keep their order
SortsBefore(ls, j, i, desc) ==
    \/ IF desc THEN ls[j].price > ls[i].price ELSE ls[j].price < ls[i].price
    \/ ls[j].price = ls[i].price /\ j < i

\* Array.prototype.sort with a price comparator: a stable sort, every level
\* placed after the levels that come before it
SortByPrice(ls, desc) ==
    [k \in 1..Len(ls) |->
        ls[CHOOSE i \in 1..Len(ls) :
              Cardinality({j \in 1..Len(ls) : SortsBefore(ls, j, i, desc)}) = k - 1]]

Slice(ls, n) == SubSeq(ls, 1, Min(n, Len(ls)))

\* minPrice <= price, with minPrice = centerPrice * (1 - rangePercent / 100);
\* rangeBp is rangePercent in hundredths of a percent
AboveMin(price, centerPrice, rangeBp) == price * 10000 >= centerPrice * (10000 - rangeBp)
BelowMax(price, centerPrice, rangeBp) == price * 10000 <= centerPrice * (10000 + rangeBp)

\* filterDepth without .slice(0, 50)
filterDepthNoSlice(orderBook, centerPrice, rangeBp) ==
    [bids |-> SortByPrice(SelectSeq(orderBook.bids,
                  LAMBDA l : AboveMin(l.price, centerPrice, rangeBp) /\ l.price <= centerPrice), TRUE),
     asks |-> SortByPrice(SelectSeq(orderBook.asks,
                  LAMBDA l : BelowMax(l.price, centerPrice, rangeBp) /\ l.price >= centerPrice), FALSE),
     lastUpdate |-> orderBook.lastUpdate]

filterDepth(orderBook, centerPrice, rangeBp) ==
    [bids |-> Slice(SortByPrice(SelectSeq(orderBook.bids,
                  LAMBDA l : AboveMin(l.price, centerPrice, rangeBp) /\ l.price <= centerPrice), TRUE), DepthLevels),
     asks |-> Slice(SortByPrice(SelectSeq(orderBook.asks,
                  LAMBDA l : BelowMax(l.price, centerPrice, rangeBp) /\ l.price >= centerPrice), FALSE), DepthLevels),
     lastUpdate |-> orderBook.lastUpdate]

\* n levels from price `from` in steps of `step`
Ramp(n, from, step) == [i \in 1..n |-> [price |-> from + (i - 1) * step, volume |-> 1000 + i]]
Levels(ps) == [i \in 1..Len(ps) |-> [price |-> ps[i], volume |-> 500 * i]]

\* books around 100.0: empty, unsorted with levels outside the range and on
\* its edges, and ramps of DepthLevels + 2 levels inside the range
BidBooks ==
    { <<>>,
      Levels(<<99500, 100000, 97000, 99900, 100100, 98000, 98500, 99900>>),
      Ramp(DepthLevels + 2, 100000, -10),
      Ramp(DepthLevels + 2, 99400, 10) }
AskBooks ==
    { <<>>,
      Levels(<<100500, 100000, 103000, 100100, 99900, 102000, 101500, 100100>>),
      Ramp(DepthLevels + 2, 100000, 10),
      Ramp(DepthLevels + 2, 100600, -10) }

DepthInputs ==
    [op : {"filterDepth"}, bids : BidBooks, asks : AskBooks,
     centerPrice : {100000, 99950, 100050}, rangeBp : {150, 200}]

DepthInit == Idle /\ input \in DepthInputs /\ output = [op |-> "none"]

ApplyDepth ==
    /\ input.op = "filterDepth"
    /\ output.op = "none"
    /\ output' = [op |-> "depth",
                  book |-> filterDepth([bids |-> input.bids, asks |-> input.asks,
                                        lastUpdate |-> 7],
                                       input.centerPrice, input.rangeBp)]
    /\ UNCHANGED input
    /\ IdleUnchanged

SpecDepth == DepthInit /\ [][ApplyDepth]_vars

\* C17: filterDepth returns only bids within [C(1 - r/100), C] in falling
\* price order and only asks within [C, C(1 + r/100)] in rising price order,
\* at most 50 per side, each of them a level of the input
C17_FilterDepth ==
    output.op = "depth" =>
       LET b == output.book.bids
           a == output.book.asks
           C == input.centerPrice
           r == input.rangeBp
       IN
       /\ \A i \in 1..Len(b) : /\ b[i].price * 10000 >= C * (10000 - r)
                               /\ b[i].price <= C
                               /\ b[i] \in Elems(input.bids)
       /\ \A i \in 1..Len(a) : /\ a[i].price * 10000 <= C * (10000 + r)
                               /\ a[i].price >= C
                               /\ a[i] \in Elems(input.asks)
       /\ \A i \in 1..(Len(b) - 1) : b[i].price >= b[i + 1].price
       /\ \A i \in 1..(Len(a) - 1) : a[i].price <= a[i + 1].price
       /\ Len(b) <= 50
       /\ Len(a) <= 50

\* more than 50 bids lie in range and are cut to 50, while the unsorted ask
\* book loses its out-of-range levels
C17_Witness ==
    /\ output.op = "depth"
    /\ Len(filterDepthNoSlice([bids |-> input.bids, asks |-> input.asks, lastUpdate |-> 7],
                              input.centerPrice, input.rangeBp).bids) > 50
    /\ Len(output.book.bids) = 50
    /\ Len(input.asks) = 8
    /\ Len(output.book.asks) \in 1..7

\* ------------------------------------------------ generateVolumeProfile
RECURSIVE AllClusters(_)
\* the clusters of all candles, in iteration order
AllClusters(candles) ==
    IF candles = <<>> THEN <<>> ELSE Head(candles).clusters \o AllClusters(Tail(candles))

RECURSIVE MinLow(_)
MinLow(candles) ==
    IF Len(candles) = 1 THEN candles[1].low ELSE Min(candles[1].low, MinLow(Tail(candles)))
RECURSIVE MaxHigh(_)
MaxHigh(candles) ==
    IF Len(candles) = 1 THEN candles[1].high ELSE Max(candles[1].high, MaxHigh(Tail(candles)))

\* Math.floor((cluster.price - minPrice) / priceStep); -1 stands for the NaN of
\* 0/0 and for every index the guard rejects
levelIndex(price, minPrice, maxPrice, priceLevels) ==
    IF maxPrice = minPrice THEN -1
    ELSE IF price < minPrice THEN -1
    ELSE ((price - minPrice) * priceLevels) \div (maxPrice - minPrice)

generateVolumeProfile(candles, priceLevels) ==
    IF candles = <<>> THEN <<>>
    ELSE
    LET minPrice == MinLow(candles)
        maxPrice == MaxHigh(candles)
        cs == AllClusters(candles)
        InLevel(i) == SelectSeq(cs, LAMBDA c :
                         LET k == levelIndex(c.price, minPrice, maxPrice, priceLevels)
                         IN k >= 0 /\ k < priceLevels /\ k = i)
        profile == [j \in 1..priceLevels |->
                      [price |-> minPrice + ((maxPrice - minPrice) * (2 * j - 1)) \div (2 * priceLevels),
                       volume |-> SumVolume(InLevel(j - 1))]]
    IN SelectSeq(profile, LAMBDA level : level.volume > 0)

Cl(p, v) == [price |-> p, volume |-> v]
ProfileCandles ==
    { [low |-> 100000, high |-> 101000, clusters |-> <<Cl(100000, 5000), Cl(100500, 7000)>>],
      [low |-> 100000, high |-> 101000, clusters |-> <<Cl(100999, 1000), Cl(101000, 3000)>>],
      [low |-> 100000, high |-> 100000, clusters |-> <<Cl(100000, 4000)>>],
      [low |-> 99000, high |-> 100000, clusters |-> <<Cl(99500, 2000), Cl(99900, 0)>>],
      [low |-> 99500, high |-> 100500, clusters |-> <<>>] }

ProfileInputs ==
    [op : {"generateVolumeProfile"},
     candles : {<<>>} \cup {<<c>> : c \in ProfileCandles}
                  \cup {<<c, d>> : c \in ProfileCandles, d \in ProfileCandles},
     priceLevels : {1, 4, 50}]

ProfileInit == Idle /\ input \in ProfileInputs /\ output = [op |-> "none"]

ApplyProfile ==
    /\ input.op = "generateVolumeProfile"
    /\ output.op = "none"
    /\ output' = [op |-> "profile",
                  profile |-> generateVolumeProfile(input.candles, input.priceLevels)]
    /\ UNCHANGED input
    /\ IdleUnchanged

SpecProfile == ProfileInit /\ [][ApplyProfile]_vars

\* C18: when every cluster price lies within [min(low), max(high)], the bucket
\* volumes of generateVolumeProfile add up to the volume of all clusters, and
\* every returned bucket has volume > 0
C18_ProfileKeepsVolume ==
    output.op = "profile" /\ input.candles # <<>> =>
       LET cs == AllClusters(input.candles) IN
       (\A i \in 1..Len(cs) : /\ cs[i].price >= MinLow(input.candles)
                              /\ cs[i].price <= MaxHigh(input.candles))
       => /\ SumVolume(output.profile) = SumVolume(cs)
          /\ \A i \in 1..Len(output.profile) : output.profile[i].volume > 0

\* ------------------------------------------------ TestDataGenerator in full
MaxOps == 3

StartTime == 1700000000
WindowSize == 100
HistorySize == 1000
InitialHistory == 100

GenSymbols == {"LTCUSDT"}
GenIntervals == {"1m", "4h"}

\* a JS number that may be NaN
NaN == [nan |-> TRUE, value |-> 0]
Num(v) == [nan |-> FALSE, value |-> v]

\* the characters of the interval strings in use
Chars(interval) ==
    CASE interval = "1m" -> <<"1", "m">> [] interval = "4h" -> <<"4", "h">>
      [] interval = "1s" -> <<"1", "s">> [] interval = "5m" -> <<"5", "m">>
      [] interval = "1d" -> <<"1", "d">> [] interval = "1w" -> <<"1", "w">>
      [] interval = "1M" -> <<"1", "M">> [] OTHER -> <<>>

DigitChars == {"0", "1", "2", "3", "4", "5", "6", "7", "8", "9"}
DigitValue(c) ==
    CASE c = "0" -> 0 [] c = "1" -> 1 [] c = "2" -> 2 [] c = "3" -> 3 [] c = "4" -> 4
      [] c = "5" -> 5 [] c = "6" -> 6 [] c = "7" -> 7 [] c = "8" -> 8 [] c = "9" -> 9

RECURSIVE SkipSpaces(_)
SkipSpaces(cs) == IF cs # <<>> /\ Head(cs) = " " THEN SkipSpaces(Tail(cs)) ELSE cs

RECURSIVE LeadingDigits(_)
\* how many digits cs starts with
LeadingDigits(cs) ==
    IF cs # <<>> /\ Head(cs) \in DigitChars THEN 1 + LeadingDigits(Tail(cs)) ELSE 0

RECURSIVE DigitsValue(_, _)
\* the decimal value of the first n characters of cs
DigitsValue(cs, n) ==
    IF n = 0 THEN 0 ELSE DigitsValue(cs, n - 1) * 10 + DigitValue(cs[n])

\* the digits after the optional sign: NaN when there is none
parseSigned(negative, digits) ==
    IF LeadingDigits(digits) = 0 THEN NaN
    ELSE Num((IF negative THEN -1 ELSE 1) * DigitsValue(digits, LeadingDigits(digits)))

\* parseInt(string) in radix 10: leading blanks, an optional sign, then digits
\* up to the first other character
parseIntChars(cs) ==
    LET t == SkipSpaces(cs)
    IN IF t # <<>> /\ Head(t) \in {"-", "+"} THEN parseSigned(Head(t) = "-", Tail(t))
       ELSE parseSigned(FALSE, t)

\* string.slice(-1)
sliceLast(cs) == IF cs = <<>> THEN "" ELSE cs[Len(cs)]

\* value * k in JS numbers
TimesNum(x, k) == IF x.nan THEN NaN ELSE Num(x.value * k)

\* getIntervalInSeconds on the characters of the interval string
getIntervalInSecondsChars(cs) ==
    LET value == parseIntChars(cs)
        unit == sliceLast(cs)
    IN CASE unit = "s" -> value
         [] unit = "m" -> TimesNum(value, 60)
         [] unit = "h" -> TimesNum(value, 3600)
         [] unit = "d" -> TimesNum(value, 86400)
         [] unit = "w" -> TimesNum(value, 604800)
         [] unit = "M" -> TimesNum(value, 2629746)
         [] OTHER -> Num(60)

\* parseInt(interval) and interval.slice(-1) for the interval strings in use
parseInt(interval) == parseIntChars(Chars(interval)).value
LastChar(interval) == sliceLast(Chars(interval))

getIntervalInSeconds(interval) ==
    LET value == parseInt(interval)
        unit == LastChar(interval)
    IN CASE unit = "s" -> value
         [] unit = "m" -> value * 60
         [] unit = "h" -> value * 3600
         [] unit = "d" -> value * 86400
         [] unit = "w" -> value * 604800
         [] unit = "M" -> value * 2629746
         [] OTHER -> 60

\* new TestDataGenerator(initialPrice)
TestDataGenerator(initialPrice) ==
    [currentPrice |-> initialPrice,
     currentTime |-> StartTime,
     priceHistory |-> [i \in 1..InitialHistory |-> initialPrice],
     historicalCandles |-> <<>>,
     lastProcessedPrice |-> EmptyMap,
     atrCache |-> EmptyMap,
     clusterCache |-> EmptyMap]

\* historicalCandles.push(candle) without the shift
pushWindowNoShift(window, candle) == Append(window, candle)

\* this.historicalCandles.push(candle); if (length > 100) shift()
pushWindow(window, candle) ==
    IF Len(window) + 1 > WindowSize THEN Tail(Append(window, candle))
    ELSE Append(window, candle)

pushCandle(g, candle) ==
    [gen |-> [g EXCEPT !.historicalCandles = pushWindow(@, candle)], candle |-> candle]

\* generateSingleCandle: the candle and the generator with its window updated
generateSingleCandle(g, time, startPrice, d) ==
    pushCandle(g, generateEnhancedCandle(time, startPrice, g.historicalCandles, d))

RECURSIVE BackfillLoop(_, _, _, _, _, _)
RECURSIVE BackfillStep(_, _, _, _, _)
\* the for loop of generateHistoricalCandles; ds holds the draws of the
\* candles still to be generated
BackfillLoop(g, time, price, seconds, ds, candles) ==
    IF ds = <<>> THEN [gen |-> g, time |-> time, price |-> price, candles |-> candles]
    ELSE BackfillStep(generateSingleCandle(g, time, price, Head(ds)), time, seconds,
                      Tail(ds), candles)

\* the rest of one iteration: price = candle.close; time += seconds
BackfillStep(r, time, seconds, ds, candles) ==
    BackfillLoop(r.gen, time + seconds, r.candle.close, seconds, ds,
                 Append(candles, r.candle))

\* the end of generateHistoricalCandles without this.currentPrice = price
endBackfillKeepPrice(r) ==
    [gen |-> [r.gen EXCEPT !.currentTime = r.time], candles |-> r.candles]

\* this.currentTime = time; this.currentPrice = price; return candles
endBackfill(r) ==
    [gen |-> [r.gen EXCEPT !.currentTime = r.time, !.currentPrice = r.price],
     candles |-> r.candles]

\* generateHistoricalCandles(count, interval); r0 is the draw of the start
\* price and ds the draws of the count candles
TDG_generateHistoricalCandles(g, count, interval, r0, ds) ==
    endBackfill(BackfillLoop(g,
                             g.currentTime - count * getIntervalInSeconds(interval),
                             (g.currentPrice * (9500 + r0)) \div 10000,
                             getIntervalInSeconds(interval), ds, <<>>))

updateCurrentPrice(g, newPrice) ==
    [g EXCEPT !.currentPrice = newPrice,
              !.priceHistory = IF Len(@) + 1 > HistorySize THEN Tail(Append(@, newPrice))
                               ELSE Append(@, newPrice)]

RECURSIVE SumSeq(_)
SumSeq(xs) == IF xs = <<>> THEN 0 ELSE Head(xs) + SumSeq(Tail(xs))

\* simulatePriceMovement; r is the draw of the random walk:
\* currentPrice * (1 + (recentAverage - currentPrice) / currentPrice * 0.1
\*                   + (r / 1000 - 0.5) * 0.001), floored at 1
simulatePriceMovement(g, r) ==
    LET h == g.priceHistory
        sum20 == SumSeq(SubSeq(h, Max(1, Len(h) - 19), Len(h)))
        moved == g.currentPrice + (sum20 - 20 * g.currentPrice) \div 200
                                + (g.currentPrice * (r - 500)) \div 1000000
    IN updateCurrentPrice(g, Max(moved, Scale))

updateATRCache(g, symbol) ==
    [g EXCEPT !.atrCache = MapSet(@, symbol, calculateATR(g.historicalCandles, ATRPeriod))]

\* the return of an accepted update without the ATR cache refresh
emitCandleStaleATR(c) == [gen |-> c.gen, ret |-> <<c.candle>>]

\* const candle = ...; updateATRCache('BTCUSDT', ...); return candle
emitCandle(c) == [gen |-> updateATRCache(c.gen, "BTCUSDT"), ret |-> <<c.candle>>]

\* generateRealtimeUpdate after simulatePriceMovement, asking no gate
gatedCandleNoGate(g1, d) ==
    emitCandle(generateSingleCandle(g1, g1.currentTime, g1.currentPrice, d))

\* generateRealtimeUpdate after simulatePriceMovement: the gate, then the candle
gatedCandle(g1, d) ==
    LET gate == shouldRefreshClusters(g1.lastProcessedPrice, "BTCUSDT", g1.currentPrice)
    IN IF ~gate.ret THEN [gen |-> g1, ret |-> <<>>]
       ELSE emitCandle(generateSingleCandle([g1 EXCEPT !.lastProcessedPrice = gate.map],
                                            g1.currentTime, g1.currentPrice, d))

\* generateRealtimeUpdate with a gate that measures every move from the price
\* before it
TDG_generateRealtimeUpdateStepwise(g, r, d) ==
    gatedCandle(simulatePriceMovement(
                   [g EXCEPT !.lastProcessedPrice =
                       IF "BTCUSDT" \in DOMAIN @ THEN MapSet(@, "BTCUSDT", g.currentPrice)
                       ELSE @], r), d)

\* generateRealtimeUpdate; ret is <<>> for null and <<candle>> otherwise
TDG_generateRealtimeUpdate(g, r, d) == gatedCandle(simulatePriceMovement(g, r), d)

\* draws of one candle
DrawUp == [trend |-> 999, noise |-> 999, wick |-> 500, up |-> 500, down |-> 500,
           base |-> 500, ratio |-> 500, rnd |-> M5]
DrawDown == [trend |-> 0, noise |-> 0, wick |-> 999, up |-> 0, down |-> 999,
             base |-> 0, ratio |-> 999, rnd |-> MAlt]
CandleDraws == {DrawUp, DrawDown}
WalkDraws == {0, 500, 999}
\* draws of one backfill: the start price draw r0 and the draws of its candles
BackfillCounts == {0, 1, 3}
Bull(count) == [r0 |-> 999, ds |-> [i \in 1..count |-> IF i % 2 = 1 THEN DrawUp ELSE DrawDown]]
Bear(count) == [r0 |-> 0, ds |-> [i \in 1..count |-> IF i % 2 = 1 THEN DrawDown ELSE DrawUp]]
BackfillDraws(count) == {Bull(count), Bear(count)}

NoLog == [ops |-> 0, ticks |-> 0, lastOp |-> "none", emitted |-> <<>>, floor |-> 0]

GenSpecInit ==
    /\ HubInit /\ GateInit /\ HistInit /\ PureInit
    /\ generators = [s \in GenSymbols |-> TestDataGenerator(getBasePriceForSymbol(s) * Scale)]
    /\ genRet = [op |-> "none"]
    /\ genLog = [s \in GenSymbols |-> NoLog]

GenUnchanged == UNCHANGED <<hubVars, gateVars, storage, histCall, input, output,
                            clusterCache, now>>

Times(candles) == [i \in 1..Len(candles) |-> candles[i].time]
MaxOf(xs, least) == IF xs = <<>> THEN least ELSE xs[Len(xs)]

\* a caller runs generateHistoricalCandles on the generator of a symbol
GenBackfill(symbol, count, interval, r0, ds) ==
    /\ genLog[symbol].ops < MaxOps
    /\ \E r \in {TDG_generateHistoricalCandles(generators[symbol], count, interval, r0, ds)} :
       LET l == genLog[symbol]
       IN /\ generators' = [generators EXCEPT ![symbol] = r.gen]
          /\ genRet' = [op |-> "backfill", symbol |-> symbol, count |-> count,
                        interval |-> interval, candles |-> r.candles]
          /\ genLog' = [genLog EXCEPT ![symbol] =
                          [l EXCEPT !.ops = @ + 1, !.lastOp = "backfill",
                                    !.floor = MaxOf(Times(r.candles), @)]]
    /\ GenUnchanged

\* a caller runs generateRealtimeUpdate on the generator of a symbol
GenTick(symbol, r, d) ==
    /\ genLog[symbol].ops < MaxOps
    /\ \E u \in {TDG_generateRealtimeUpdate(generators[symbol], r, d)} :
       LET l == genLog[symbol]
       IN /\ generators' = [generators EXCEPT ![symbol] = u.gen]
          /\ genRet' = [op |-> "tick", symbol |-> symbol, ret |-> u.ret]
          /\ genLog' = [genLog EXCEPT ![symbol] =
                          [l EXCEPT !.ops = @ + 1, !.ticks = @ + 1, !.lastOp = "tick",
                                    !.emitted = IF u.ret = <<>> THEN @
                                                ELSE Append(@, [time |-> u.ret[1].time,
                                                                floor |-> l.floor,
                                                                open |-> u.ret[1].open])]]
    /\ GenUnchanged

GenNext ==
    \/ \E s \in GenSymbols, count \in BackfillCounts, i \in GenIntervals :
          \E b \in BackfillDraws(count) : GenBackfill(s, count, i, b.r0, b.ds)
    \/ \E s \in GenSymbols, r \in WalkDraws, d \in CandleDraws : GenTick(s, r, d)

SpecGen == GenSpecInit /\ [][GenNext]_vars

\* C11: the first generateRealtimeUpdate of a generator returns a candle, and
\* the call right after it returns none when its price differs from the first
\* call's price by less than 0.05%
C11_BootstrapThenSuppress ==
    [][\A s \in GenSymbols, r \in WalkDraws, d \in CandleDraws :
          GenTick(s, r, d) =>
             LET first == generators[s].currentPrice
                 second == generators'[s].currentPrice
             IN /\ genLog[s].ticks = 0 => genRet'.ret # <<>>
                /\ (genLog[s].ticks = 1 /\ genLog[s].lastOp = "tick"
                      /\ Abs(second - first) * 10000 < 5 * first)
                   => genRet'.ret = <<>>]_vars

\* a fresh generator after two calls: the first emitted, the second moved the
\* price by less than the threshold and emitted nothing
C11_Witness ==
    \E s \in GenSymbols :
       /\ genLog[s].ops = 2
       /\ genLog[s].ticks = 2
       /\ Len(genLog[s].emitted) = 1
       /\ genRet.op = "tick"
       /\ genRet.ret = <<>>
       /\ generators[s].currentPrice # generators[s].lastProcessedPrice["BTCUSDT"]

ExpectedSeconds(interval) == IF interval = "1m" THEN 60 ELSE 4 * 3600

\* C12: generateHistoricalCandles(count, interval) returns count candles,
\* their times strictly increasing in steps of intervalSeconds (60 for "1m"),
\* each open equal to the previous close, and currentPrice ends at the close
\* of the last candle
C12_Backfill ==
    genRet.op = "backfill" =>
       LET cs == genRet.candles
           n == genRet.count
       IN /\ Len(cs) = n
          /\ \A i \in 1..(Len(cs) - 1) :
                /\ cs[i + 1].time > cs[i].time
                /\ cs[i + 1].time - cs[i].time = ExpectedSeconds(genRet.interval)
                /\ cs[i + 1].open = cs[i].close
          /\ n >= 1 => generators[genRet.symbol].currentPrice = cs[Len(cs)].close

\* a backfill of three 4h candles on a generator that has been used before
C12_Witness ==
    /\ genRet.op = "backfill"
    /\ genRet.count = 3
    /\ genRet.interval = "4h"
    /\ genLog[genRet.symbol].ops >= 2
    /\ Len(genRet.candles) = 3
    /\ genRet.candles[3].close # genRet.candles[1].open

\* C13: the candles returned by generateRealtimeUpdate carry strictly
\* increasing times, each later than every candle of the preceding backfill
C13_RealtimeTimeAdvances ==
    \A s \in GenSymbols :
       LET e == genLog[s].emitted IN
       /\ \A i \in 1..Len(e) : e[i].time > e[i].floor
       /\ \A i \in 1..Len(e), j \in 1..Len(e) : i < j => e[i].time < e[j].time

\* ------------------------------------------------ getHistoricalData
MaxCalls == 1
MaxStored == 2

Clock == 1700000000
BookDepth == 50
BookRangeBp == 150

\* one level of generateOrderBook: i counts from 0, side is -1 for bids and 1
\* for asks, r is the draw of the volume
\*   price  = currentPrice -/+ (spread / 2 + i * spread * 0.1), spread = 0.01%
\*   volume = (10 + Math.random() * 50) * (1 - i * 0.05)
bookLevel(currentPrice, i, side, r) ==
    [price |-> currentPrice + side * ((currentPrice * (5 + i)) \div 100000),
     volume |-> ((10 * Scale + 50 * r) * (100 - 5 * i)) \div 100]

\* generateOrderBook(depth, true); v holds the volume draws of the two sides
generateOrderBook(g, depth, v) ==
    filterDepth([bids |-> [i \in 1..depth |-> bookLevel(g.currentPrice, i - 1, -1, v.bid)],
                 asks |-> [i \in 1..depth |-> bookLevel(g.currentPrice, i - 1, 1, v.ask)],
                 lastUpdate |-> Clock],
                g.currentPrice, BookRangeBp)

\* generateOrderBook(depth, applyDepthFilter): with the flag off the two loops'
\* levels are returned as they were pushed
TDG_generateOrderBook(g, depth, applyDepthFilter, v) ==
    IF applyDepthFilter THEN generateOrderBook(g, depth, v)
    ELSE [bids |-> [i \in 1..depth |-> bookLevel(g.currentPrice, i - 1, -1, v.bid)],
          asks |-> [i \in 1..depth |-> bookLevel(g.currentPrice, i - 1, 1, v.ask)],
          lastUpdate |-> Clock]

BookDraws == {[bid |-> 0, ask |-> 999], [bid |-> 999, ask |-> 0]}

\* getOrCreateGenerator without the has(symbol) test
TDG_createGenerator(gens, symbol) ==
    MapSet(gens, symbol, TestDataGenerator(getBasePriceForSymbol(symbol) * Scale))

\* getOrCreateGenerator on the map of full generators
TDG_getOrCreateGenerator(gens, symbol) ==
    IF symbol \in DOMAIN gens THEN gens
    ELSE MapSet(gens, symbol, TestDataGenerator(getBasePriceForSymbol(symbol) * Scale))

\* storage.getCandleData(symbol, interval, limit): the ordered candles kept
\* under the key, at most limit of them (the most recent ones)
getCandleData(store, symbol, interval, limit) ==
    IF Key(symbol, interval) \notin DOMAIN store.candles THEN <<>>
    ELSE LET kept == store.candles[Key(symbol, interval)]
         IN SubSeq(kept, Max(1, Len(kept) - limit + 1), Len(kept))

\* storage.getOrderBookData(symbol): <<book>> or <<>> when absent
getOrderBookData(store, symbol) ==
    IF symbol \in DOMAIN store.orderBook THEN <<store.orderBook[symbol]>> ELSE <<>>

histReturn(gens, symbol, interval, r, v) ==
    [gens |-> [gens EXCEPT ![symbol] = r.gen],
     ret |-> [candles |-> r.candles, orderBook |-> <<generateOrderBook(r.gen, BookDepth, v)>>,
              symbol |-> symbol, interval |-> interval]]

\* the fallback of getHistoricalData: generator, backfill, order book
histGenerate(gens, symbol, interval, limit, b, v) ==
    histReturn(gens, symbol, interval,
               TDG_generateHistoricalCandles(gens[symbol], limit, interval, b.r0, b.ds), v)

\* getHistoricalData that ignores what persistence returned
histAfterReadsIgnoreCache(gens, cachedCandles, cachedOrderBook, symbol, interval, limit, b, v) ==
    histGenerate(TDG_getOrCreateGenerator(gens, symbol), symbol, interval, limit, b, v)

\* getHistoricalData once both reads have resolved
histAfterReads(gens, cachedCandles, cachedOrderBook, symbol, interval, limit, b, v) ==
    IF Len(cachedCandles) > 0
    THEN [gens |-> gens,
          ret |-> [candles |-> cachedCandles, orderBook |-> cachedOrderBook,
                   symbol |-> symbol, interval |-> interval]]
    ELSE histGenerate(TDG_getOrCreateGenerator(gens, symbol), symbol, interval, limit, b, v)

HistSymbols == {"LTCUSDT", "XYZUSDT"}
HistLimits == {0, 1, 3}
HistIntervals == {"1m"}
StoredCandle(n) == FlatCandle(Clock - 60 * n, 95000 + n)
StoredBook == [bids |-> <<[price |-> 94990, volume |-> 1000]>>,
               asks |-> <<[price |-> 95010, volume |-> 2000]>>, lastUpdate |-> Clock]

HistSpecInit ==
    /\ HubInit /\ GateInit /\ PureInit
    /\ genRet = [op |-> "none"]
    /\ genLog = [s \in GenSymbols |-> NoLog]
    /\ generators \in {EmptyMap,
                       [s \in {"LTCUSDT"} |-> TestDataGenerator(getBasePriceForSymbol(s) * Scale)]}
    /\ storage \in {[candles |-> EmptyMap, orderBook |-> EmptyMap],
                    [candles |-> [k \in {Key("LTCUSDT", "1m")} |-> <<StoredCandle(2), StoredCandle(1)>>],
                     orderBook |-> [s \in {"LTCUSDT"} |-> StoredBook]]}
    /\ histCall = [pc |-> "idle", calls |-> 0]

HistUnchanged == UNCHANGED <<hubVars, gateVars, genRet, genLog, input, output,
                             clusterCache, now>>

\* a caller enters getHistoricalData and awaits storage.getCandleData
HistCall(symbol, interval, limit) ==
    /\ histCall.pc \in {"idle", "done", "threw"}
    /\ histCall.calls < MaxCalls
    /\ histCall' = [pc |-> "getCandleData", calls |-> histCall.calls + 1,
                    symbol |-> symbol, interval |-> interval, limit |-> limit]
    /\ UNCHANGED <<generators, storage>>
    /\ HistUnchanged

\* storage.getCandleData resolves; storage.getOrderBookData is awaited
CandlesRead ==
    /\ histCall.pc = "getCandleData"
    /\ histCall' = [pc |-> "getOrderBookData", calls |-> histCall.calls,
                    symbol |-> histCall.symbol, interval |-> histCall.interval,
                    limit |-> histCall.limit,
                    cachedCandles |-> getCandleData(storage, histCall.symbol,
                                                    histCall.interval, histCall.limit)]
    /\ UNCHANGED <<generators, storage>>
    /\ HistUnchanged

\* either read rejects: the catch block logs and rethrows
ReadFailed ==
    /\ histCall.pc \in {"getCandleData", "getOrderBookData"}
    /\ histCall' = [pc |-> "threw", calls |-> histCall.calls]
    /\ UNCHANGED <<generators, storage>>
    /\ HistUnchanged

\* storage.getOrderBookData resolves and the call runs to its return
OrderBookRead(b, v) ==
    /\ histCall.pc = "getOrderBookData"
    /\ \E r \in {histAfterReads(generators, histCall.cachedCandles,
                                getOrderBookData(storage, histCall.symbol),
                                histCall.symbol, histCall.interval, histCall.limit, b, v)} :
          /\ generators' = r.gens
          /\ histCall' = [pc |-> "done", calls |-> histCall.calls, ret |-> r.ret]
    /\ UNCHANGED storage
    /\ HistUnchanged

\* another writer (a tick of a stream) persists a candle meanwhile
StorageSave(symbol, interval) ==
    /\ \A k \in DOMAIN storage.candles : Len(storage.candles[k]) < MaxStored
    /\ LET k == Key(symbol, interval)
           kept == IF k \in DOMAIN storage.candles THEN storage.candles[k] ELSE <<>>
       IN storage' = [storage EXCEPT !.candles = MapSet(@, k, Append(kept, StoredCandle(0)))]
    /\ UNCHANGED <<generators, histCall>>
    /\ HistUnchanged

HistNext ==
    \/ \E s \in HistSymbols, i \in HistIntervals, l \in HistLimits : HistCall(s, i, l)
    \/ CandlesRead
    \/ ReadFailed
    \/ \E b \in BackfillDraws(IF histCall.pc = "getOrderBookData" THEN histCall.limit ELSE 0),
          v \in BookDraws : OrderBookRead(b, v)
    \/ \E i \in HistIntervals : StorageSave("LTCUSDT", i)

SpecHist == HistSpecInit /\ [][HistNext]_vars

InDepth(book, centerPrice) ==
    /\ Len(book.bids) <= BookDepth
    /\ Len(book.asks) <= BookDepth
    /\ \A i \in 1..Len(book.bids) :
          /\ book.bids[i].price <= centerPrice
          /\ book.bids[i].price * 10000 >= centerPrice * (10000 - BookRangeBp)
    /\ \A i \in 1..Len(book.asks) :
          /\ book.asks[i].price >= centerPrice
          /\ book.asks[i].price * 10000 <= centerPrice * (10000 + BookRangeBp)

\* C19: getHistoricalData with limit >= 1 returns the persisted candles when
\* persistence answered with at least one, leaving every generator as it was;
\* otherwise it creates the symbol's generator if absent and returns exactly
\* limit generated candles and a depth-filtered order book; the candle list is
\* never empty
C19_HistoricalData ==
    [][\A b \in BackfillDraws(IF histCall.pc = "getOrderBookData" THEN histCall.limit ELSE 0),
          v \in BookDraws :
          (OrderBookRead(b, v) /\ histCall.limit >= 1) =>
             LET ret == histCall'.ret
                 s == histCall.symbol
             IN /\ Len(histCall.cachedCandles) > 0 =>
                      /\ ret.candles = histCall.cachedCandles
                      /\ generators' = generators
                /\ Len(histCall.cachedCandles) = 0 =>
                      /\ s \in DOMAIN generators'
                      /\ \A o \in DOMAIN generators : o \in DOMAIN generators'
                      /\ \A o \in DOMAIN generators' \ {s} :
                            o \in DOMAIN generators /\ generators'[o] = generators[o]
                      /\ Len(ret.candles) = histCall.limit
                      /\ Len(ret.orderBook) = 1
                      /\ InDepth(ret.orderBook[1], generators'[s].currentPrice)
                /\ Len(ret.candles) > 0]_vars

\* a call for a symbol without generator found nothing persisted under its
\* key and returned three generated candles, while the candles persisted under
\* another key stayed where they were
C19_Witness ==
    /\ histCall.pc = "done"
    /\ histCall.ret.symbol = "XYZUSDT"
    /\ Len(histCall.ret.candles) = 3
    /\ "XYZUSDT" \in DOMAIN generators
    /\ generators["XYZUSDT"].currentPrice = histCall.ret.candles[3].close
    /\ Len(histCall.ret.orderBook[1].bids) = BookDepth
    /\ Key("LTCUSDT", "1m") \in DOMAIN storage.candles

\* a call answered from persistence
C19_WitnessPersisted ==
    /\ histCall.pc = "done"
    /\ histCall.ret.symbol = "LTCUSDT"
    /\ histCall.ret.candles = <<StoredCandle(1)>>
    /\ generators = EmptyMap

\* ------------------------------------------------ two keys, one connection
KeyIntervals == {"1m", "5m"}
KeyConns == {"ws1"}
KeyThrowers == KeyConns \cup {"nobody"}

KeysNext ==
    \/ \E ws \in KeyConns : addConnection(ws)
    \/ \E ws \in KeyConns : OnClose(ws)
    \/ \E s \in Symbols, i \in KeyIntervals, ws \in KeyConns, p \in Prices :
          subscribeToSymbol(s, i, ws, p)
    \/ \E id \in 1..MaxStreams : SeedSaved(id)
    \/ \E id \in 1..MaxStreams : SeedSaveFailed(id)
    \/ \E id \in 1..MaxStreams, p \in Prices : TimerFire(id, p)
    \/ \E t \in 1..MaxCandles : CandleSaved(t)
    \/ \E t \in 1..MaxCandles : SaveFailed(t)
    \/ \E t \in 1..MaxCandles, th1 \in KeyThrowers, th2 \in KeyThrowers :
          OrderBookSaved(t, th1, th2)

SpecKeys == Init /\ [][KeysNext]_vars

\* the step in which tick t ends in its catch block
TickFault(t) ==
    \/ SaveFailed(t)
    \/ \E th1 \in KeyThrowers, th2 \in KeyThrowers :
          OrderBookSaved(t, th1, th2) /\ ticks'[t].pc = "sendFailed"

\* C20: an exception in a key's tick (a rejected save, a throwing send) ends
\* that tick only: every timer stays scheduled, the key's own included, and
\* the subscriptions, generators, streams and all other ticks are untouched,
\* so the next tick of the key and the loops of other keys run as before
C20_TickFaultContained ==
    [][\A t \in 1..MaxCandles :
          TickFault(t) =>
             /\ activeTimers' = activeTimers
             /\ updateIntervals' = updateIntervals
             /\ streams' = streams
             /\ subscriptions' = subscriptions
             /\ dataGenerators' = dataGenerators
             /\ Len(ticks') = Len(ticks)
             /\ \A u \in 1..Len(ticks) : u # t => ticks'[u] = ticks[u]]_vars

\* tick 1 of a key failed; the same timer fired again and that tick delivered
\* both frames, while the timer of the other key is still scheduled
C20_Witness ==
    /\ Len(ticks) = 2
    /\ ticks[1].pc \in {"saveFailed", "sendFailed"}
    /\ ticks[2].timer = ticks[1].timer
    /\ ticks[2].pc = "done"
    /\ Received("ws1", 2)
    /\ ticks[1].timer \in activeTimers
    /\ \E id \in activeTimers : streams[id].key # ticks[1].key

\* C21: a rejected saveCandleData during the seeding of a key's first
\* subscription does not end startDataStream: the stream goes on seeding or is
\* scheduled, so the key's subscribers stay served by an update loop
C21_SeedFailureScoped ==
    [][\A id \in 1..MaxStreams :
          SeedSaveFailed(id) =>
             /\ streams'[id].pc \in {"seeding", "scheduled"}
             /\ streams[id].left = 1 => id \in activeTimers']_vars

\* C22: a rejected generateRealtimeUpdate returns null and changes only
\* currentPrice and one appended priceHistory entry; an accepted one appends
\* exactly one candle, opened at the new price, to the candle window,
\* recomputes the ATR cache entry from the window and makes the new price the
\* last-significant price
C22_RealtimeUpdateFrame ==
    [][\A s \in GenSymbols, r \in WalkDraws, d \in CandleDraws :
          GenTick(s, r, d) =>
             LET g == generators[s]
                 h == generators'[s]
                 ret == genRet'.ret
             IN /\ h.priceHistory = Append(g.priceHistory, h.currentPrice)
                /\ h.currentTime = g.currentTime
                /\ ret = <<>> =>
                      /\ h.historicalCandles = g.historicalCandles
                      /\ h.atrCache = g.atrCache
                      /\ h.lastProcessedPrice = g.lastProcessedPrice
                /\ ret # <<>> =>
                      /\ Len(ret) = 1
                      /\ ret[1].open = h.currentPrice
                      /\ h.historicalCandles = Append(g.historicalCandles, ret[1])
                      /\ h.atrCache = MapSet(g.atrCache, "BTCUSDT",
                                             calculateATR(h.historicalCandles, ATRPeriod))
                      /\ h.lastProcessedPrice = MapSet(g.lastProcessedPrice, "BTCUSDT",
                                                       h.currentPrice)]_vars

\* three calls: accepted, rejected, accepted again once the move has added up;
\* the window holds the two candles and the ATR cache comes from both
C22_Witness ==
    \E s \in GenSymbols :
       /\ genLog[s].ops = 3
       /\ genLog[s].ticks = 3
       /\ Len(genLog[s].emitted) = 2
       /\ genRet.op = "tick"
       /\ genRet.ret # <<>>
       /\ Len(generators[s].historicalCandles) = 2
       /\ Len(generators[s].priceHistory) = InitialHistory + 3
       /\ generators[s].atrCache["BTCUSDT"] # ATRDefault

---------------------------------------------------------------------------
\* generators that have run long enough to fill the candle window and the
\* price history

CapOps == 1
\* calls made before the observed ones: ticks first, then one backfill
WarmTicks == {898, 899, 900}
WarmCandles == {98, 99}

\* generateRealtimeUpdate as tick i of the calls made before: the walk goes
\* down on odd ticks and up on even ones
WarmTick(g, i) == TDG_generateRealtimeUpdate(g, IF i % 2 = 1 THEN 250 ELSE 750, DrawUp).gen

\* generateHistoricalCandles(1, '1m') as backfill i of the calls made before
WarmBackfill(g, i) ==
    TDG_generateHistoricalCandles(g, 1, "1m", 500, <<IF i % 2 = 1 THEN DrawUp ELSE DrawDown>>).gen

RECURSIVE RunTicks(_, _, _)
\* the ticks lo..hi one after the other
RunTicks(g, lo, hi) ==
    IF lo > hi THEN g
    ELSE IF lo = hi THEN WarmTick(g, lo)
    ELSE CHOOSE r \in {RunTicks(left, (lo + hi) \div 2 + 1, hi) :
                         left \in {RunTicks(g, lo, (lo + hi) \div 2)}} : TRUE

RECURSIVE RunBackfills(_, _, _)
\* the backfills lo..hi one after the other
RunBackfills(g, lo, hi) ==
    IF lo > hi THEN g
    ELSE IF lo = hi THEN WarmBackfill(g, lo)
    ELSE CHOOSE r \in {RunBackfills(left, (lo + hi) \div 2 + 1, hi) :
                         left \in {RunBackfills(g, lo, (lo + hi) \div 2)}} : TRUE

Warmed(symbol, ticksBefore, candlesBefore) ==
    CHOOSE r \in {RunBackfills(ticked, 1, candlesBefore) :
                    ticked \in {RunTicks(TestDataGenerator(getBasePriceForSymbol(symbol) * Scale),
                                         1, ticksBefore)}} : TRUE

CapsInit ==
    /\ HubInit /\ GateInit /\ HistInit /\ PureInit
    /\ \E t \in WarmTicks, c \in WarmCandles :
          generators = [s \in GenSymbols |-> Warmed(s, t, c)]
    /\ genRet = [op |-> "none"]
    /\ genLog = [s \in GenSymbols |-> [NoLog EXCEPT !.ops = MaxOps - CapOps]]

SpecCaps == CapsInit /\ [][GenNext]_vars

LastN(xs, n) == SubSeq(xs, Len(xs) - Min(n, Len(xs)) + 1, Len(xs))

\* the candles a call generated, in generation order
Generated == 
    IF genRet.op = "backfill" THEN genRet.candles
    ELSE IF genRet.op = "tick" THEN genRet.ret ELSE <<>>

\* C23: the candle window holds at most 100 candles, the most recent ones in
\* generation order (the oldest evicted first); the price history holds at
\* least 20 and at most 1000 entries, the oldest evicted first
C23_WindowAndHistoryCaps ==
    /\ [](\A s \in GenSymbols :
             /\ Len(generators[s].historicalCandles) <= 100
             /\ Len(generators[s].priceHistory) >= 20
             /\ Len(generators[s].priceHistory) <= 1000)
    /\ [][\A s \in GenSymbols :
             generators'[s] # generators[s] =>
                /\ generators'[s].historicalCandles =
                      LastN(generators[s].historicalCandles \o Generated', 100)
                /\ genRet'.op = "tick" =>
                      generators'[s].priceHistory =
                         LastN(Append(generators[s].priceHistory,
                                      generators'[s].currentPrice), 1000)
                /\ genRet'.op = "backfill" =>
                      generators'[s].priceHistory = generators[s].priceHistory]_vars

\* a tick emitted a candle into a full window and a full price history
C23_Witness ==
    \E s \in GenSymbols :
       /\ genRet.op = "tick"
       /\ genRet.ret # <<>>
       /\ Len(generators[s].historicalCandles) = 100
       /\ Len(generators[s].priceHistory) = 1000
       /\ generators[s].historicalCandles[100] = genRet.ret[1]
       /\ generators[s].historicalCandles[1].time > generators[s].historicalCandles[100].time - 100 * 60

---------------------------------------------------------------------------
\* the preload cache of a ClusterEngine under a clock

MaxAdvances == 4
CACHE_TTL == 60000
\* what the clock may advance by between two calls, in ms
ClockSteps == {1, 59999}
PreloadSymbols == {"LTCUSDT"}
PreloadIntervals == {"1m", "5m"}
PreloadFrom == 0
PreloadTo == 86400

\* `${symbol}_${interval}_${fromTime}_${toTime}`
cacheKey(symbol, interval, fromTime, toTime) == <<symbol, interval, fromTime, toTime>>

\* cached && Date.now() - cached.timestamp <= CACHE_TTL
cacheHitInclusive(cache, key, t) ==
    key \in DOMAIN cache /\ t - cache[key].timestamp <= CACHE_TTL

\* cached && Date.now() - cached.timestamp < CACHE_TTL
cacheHit(cache, key, t) ==
    key \in DOMAIN cache /\ t - cache[key].timestamp < CACHE_TTL

\* preloadHistoricalClusters; data is the array returned and stored is the
\* timestamp of the entry it was taken from or put into
preloadHistoricalClusters(cache, symbol, interval, fromTime, toTime, t) ==
    LET key == cacheKey(symbol, interval, fromTime, toTime)
    IN IF cacheHit(cache, key, t)
       THEN [cache |-> cache, data |-> cache[key].data, cached |-> TRUE,
             stored |-> cache[key].timestamp]
       ELSE [cache |-> MapSet(cache, key, [data |-> <<>>, timestamp |-> t]),
             data |-> <<>>, cached |-> FALSE, stored |-> t]

\* cleanupCache: entries with now - timestamp > CACHE_TTL are deleted
cleanupCache(cache, t) ==
    MapDelete(cache, {key \in DOMAIN cache : t - cache[key].timestamp > CACHE_TTL})

CacheUnchanged == UNCHANGED <<hubVars, gateVars, generators, genRet, genLog,
                              storage, histCall, input>>

\* clock advances so far
Advances == IF output.op = "none" THEN 0 ELSE output.advances

\* time passes
Advance(dt) ==
    /\ Advances < MaxAdvances
    /\ now' = now + dt
    /\ output' = [op |-> "advance", advances |-> Advances + 1]
    /\ UNCHANGED clusterCache
    /\ CacheUnchanged

\* GET /api/preload/:symbol
Preload(symbol, interval) ==
    /\ \E r \in {preloadHistoricalClusters(clusterCache, symbol, interval,
                                           PreloadFrom, PreloadTo, now)} :
          /\ clusterCache' = r.cache
          /\ output' = [op |-> "preload", advances |-> Advances, data |-> r.data,
                        cached |-> r.cached, stored |-> r.stored]
    /\ UNCHANGED now
    /\ CacheUnchanged

\* the cache sweep timer of TradingDataManager
SweepTimer ==
    /\ clusterCache' = cleanupCache(clusterCache, now)
    /\ output' = [op |-> "cleanup", advances |-> Advances]
    /\ UNCHANGED now
    /\ CacheUnchanged

CacheNext ==
    \/ \E dt \in ClockSteps : Advance(dt)
    \/ \E s \in PreloadSymbols, i \in PreloadIntervals : Preload(s, i)
    \/ SweepTimer

SpecCache == Init /\ [][CacheNext]_vars

AgeOf(cache, key, t) == t - cache[key].timestamp

\* C24: a lookup returns the stored value only if its entry is younger than
\* 60000 ms and otherwise stores a recomputed value under the current time;
\* cleanupCache deletes every entry older than 60000 ms and none younger, so
\* every entry left has an age of at most 60000 ms
C24_CacheTTL ==
    /\ [][\A s \in PreloadSymbols, i \in PreloadIntervals :
             Preload(s, i) =>
                LET key == cacheKey(s, i, PreloadFrom, PreloadTo)
                    young == key \in DOMAIN clusterCache
                             /\ AgeOf(clusterCache, key, now) < 60000
                IN /\ output'.cached <=> young
                   /\ young => /\ output'.stored = clusterCache[key].timestamp
                               /\ clusterCache' = clusterCache
                   /\ ~young => /\ clusterCache'[key].timestamp = now
                                /\ output'.stored = now
                   /\ now - output'.stored < 60000]_vars
    /\ [][SweepTimer =>
             /\ \A key \in DOMAIN clusterCache :
                   /\ AgeOf(clusterCache, key, now) > 60000 => key \notin DOMAIN clusterCache'
                   /\ AgeOf(clusterCache, key, now) < 60000 =>
                         /\ key \in DOMAIN clusterCache'
                         /\ clusterCache'[key] = clusterCache[key]
             /\ \A key \in DOMAIN clusterCache' : AgeOf(clusterCache', key, now) <= 60000]_vars

\* a lookup at the moment its entry is exactly 60000 ms old: recomputed
C24_Witness ==
    /\ output.op = "preload"
    /\ ~output.cached
    /\ now = 60000
    /\ \E key \in DOMAIN clusterCache : clusterCache[key].timestamp = 0
    /\ \E key \in DOMAIN clusterCache : clusterCache[key].timestamp = 60000

---------------------------------------------------------------------------
\* calculateATR, one call

MaxATRLen == 4
ATRPeriods == {1, 2, 3}
ATRCandles == {WideCandle(0, 1000, 10), WideCandle(0, 1020, 40), FlatCandle(0, 990)}
RECURSIVE SeqsUpTo(_, _)
SeqsUpTo(S, n) ==
    IF n = 0 THEN {<<>>}
    ELSE LET shorter == SeqsUpTo(S, n - 1)
         IN shorter \cup {Append(q, x) : q \in {r \in shorter : Len(r) = n - 1}, x \in S}
\* a window of 16 candles whose ranges widen, for the default period
Widening == [i \in 1..16 |-> WideCandle(60 * i, 1000, 10 * i)]
ATRInputs ==
    {[op |-> "calculateATR", candles |-> c, period |-> n] :
        c \in SeqsUpTo(ATRCandles, MaxATRLen), n \in ATRPeriods}
    \cup {[op |-> "calculateATR", candles |-> Widening, period |-> ATRPeriod]}

ATRInit == Idle /\ input \in ATRInputs /\ output = [op |-> "none"]

ApplyATR ==
    /\ input.op = "calculateATR"
    /\ output.op = "none"
    /\ output' = [op |-> "atr", atr |-> calculateATR(input.candles, input.period)]
    /\ UNCHANGED input
    /\ IdleUnchanged

SpecATR == ATRInit /\ [][ApplyATR]_vars

\* true range of the pair of candles (i - 1, i)
TrueRange(candles, i) ==
    Max(candles[i].high - candles[i].low,
        Max(Abs(candles[i].high - candles[i - 1].close),
            Abs(candles[i].low - candles[i - 1].close)))

RECURSIVE SumRanges(_, _, _)
SumRanges(candles, from, to) ==
    IF from > to THEN 0 ELSE TrueRange(candles, from) + SumRanges(candles, from + 1, to)

\* C25: calculateATR returns 0.001 for fewer than two candles and otherwise the
\* mean true range of the min(period, length - 1) most recent consecutive pairs
C25_ATRMostRecent ==
    output.op = "atr" =>
       LET c == input.candles
           n == Min(input.period, Len(c) - 1)
       IN IF Len(c) < 2 THEN output.atr = ATRDefault
          ELSE output.atr = SumRanges(c, Len(c) - n + 1, Len(c)) \div n

---------------------------------------------------------------------------
\* the tick period of a key, one call

MaxIntervalLen == 3
IntervalChars == {"0", "1", "5", "-", "s", "m", "h", "y"}
\* every string over IntervalChars up to the length bound, and the longer units
IntervalStrings ==
    SeqsUpTo(IntervalChars, MaxIntervalLen) \cup {<<"1", "d">>, <<"3", "d">>, <<"1", "w">>, <<"1", "M">>}

\* Math.min(TestDataGenerator.getIntervalMs(interval), 2000): seconds * 1000 is
\* below 2000 exactly for whole seconds below 2, and Math.min passes NaN on
tickPeriod(cs) ==
    LET seconds == getIntervalInSecondsChars(cs)
    IN IF seconds.nan THEN NaN
       ELSE IF seconds.value >= 2 THEN Num(2000) ELSE Num(seconds.value * 1000)

PeriodInit ==
    /\ Idle
    /\ input \in {[op |-> "tickPeriod", interval |-> cs] : cs \in IntervalStrings}
    /\ output = [op |-> "none"]

ApplyPeriod ==
    /\ input.op = "tickPeriod"
    /\ output.op = "none"
    /\ output' = [op |-> "period", ms |-> tickPeriod(input.interval)]
    /\ UNCHANGED input
    /\ IdleUnchanged

SpecPeriod == PeriodInit /\ [][ApplyPeriod]_vars

UnitSeconds(unit) ==
    CASE unit = "s" -> 1 [] unit = "m" -> 60 [] unit = "h" -> 3600 [] unit = "d" -> 86400
      [] unit = "w" -> 604800 [] unit = "M" -> 2629746

\* an integer followed by one of the six units
WellFormed(cs) ==
    /\ Len(cs) >= 2
    /\ cs[Len(cs)] \in {"s", "m", "h", "d", "w", "M"}
    /\ LeadingDigits(cs) = Len(cs) - 1

\* C26: the tick period is min(intervalMs, 2000) ms, an interval <integer><unit>
\* lasting integer * unit seconds and any other unit 60 s; so the period of
\* every interval string lies in (0, 2000] ms
C26_TickPeriod ==
    output.op = "period" =>
       LET cs == input.interval
       IN /\ WellFormed(cs) =>
                output.ms = Num(Min(DigitsValue(cs, Len(cs) - 1) * UnitSeconds(cs[Len(cs)]), 2)
                                * 1000)
          /\ (cs = <<>> \/ cs[Len(cs)] \notin {"s", "m", "h", "d", "w", "M"}) =>
                output.ms = Num(2000)
          /\ ~output.ms.nan
          /\ output.ms.value > 0
          /\ output.ms.value <= 2000

---------------------------------------------------------------------------
\* the generators of two symbols side by side

IsoOps == 3
IsoSymbols == {"LTCUSDT", "XYZUSDT"}

\* getRelevantCandles(timeRange) for the default range '1d'
getRelevantCandles(g) == SelectSeq(g.historicalCandles, LAMBDA c : c.time >= Clock - 86400)

\* TestDataGenerator.generateVolumeProfile
TDG_generateVolumeProfile(g) == generateVolumeProfile(getRelevantCandles(g), DepthLevels)

\* TestDataGenerator.preloadHistoricalData on the generator's own engine
preloadHistoricalData(g, symbol, interval, fromTime, toTime, t) ==
    [g EXCEPT !.clusterCache =
        preloadHistoricalClusters(@, symbol, interval, fromTime, toTime, t).cache]

IsoInit ==
    /\ HubInit /\ GateInit /\ HistInit /\ PureInit
    /\ generators = EmptyMap
    /\ genRet = [op |-> "none"]
    /\ genLog = [ops |-> 0]

\* startDataStream or the getHistoricalData fallback: the generator of the
\* symbol is looked up or created and backfills one candle
IsoBackfill(symbol, b) ==
    /\ genLog.ops < IsoOps
    /\ \E gens \in {TDG_getOrCreateGenerator(generators, symbol)} :
       \E r \in {TDG_generateHistoricalCandles(gens[symbol], 1, "1m", b.r0, b.ds)} :
          /\ generators' = [gens EXCEPT ![symbol] = r.gen]
          /\ genRet' = [op |-> "backfill", symbol |-> symbol, candles |-> r.candles]
    /\ genLog' = [ops |-> genLog.ops + 1]
    /\ GenUnchanged

\* the timer of a key of the symbol fires
IsoTick(symbol, r, d) ==
    /\ genLog.ops < IsoOps
    /\ symbol \in DOMAIN generators
    /\ \E u \in {TDG_generateRealtimeUpdate(generators[symbol], r, d)} :
          /\ generators' = [generators EXCEPT ![symbol] = u.gen]
          /\ genRet' = [op |-> "tick", symbol |-> symbol, ret |-> u.ret]
    /\ genLog' = [ops |-> genLog.ops + 1]
    /\ GenUnchanged

\* GET /api/preload/:symbol
IsoPreload(symbol, interval) ==
    /\ genLog.ops < IsoOps
    /\ \E gens \in {TDG_getOrCreateGenerator(generators, symbol)} :
          /\ generators' = [gens EXCEPT ![symbol] =
                               preloadHistoricalData(@, symbol, interval, PreloadFrom,
                                                     PreloadTo, now)]
          /\ genRet' = [op |-> "preload", symbol |-> symbol]
    /\ genLog' = [ops |-> genLog.ops + 1]
    /\ GenUnchanged

\* GET /api/volume-profile/:symbol
IsoProfile(symbol) ==
    /\ genLog.ops < IsoOps
    /\ \E gens \in {TDG_getOrCreateGenerator(generators, symbol)} :
          /\ generators' = gens
          /\ genRet' = [op |-> "profile", symbol |-> symbol,
                        profile |-> TDG_generateVolumeProfile(gens[symbol])]
    /\ genLog' = [ops |-> genLog.ops + 1]
    /\ GenUnchanged

IsoNext ==
    \/ \E s \in IsoSymbols, b \in BackfillDraws(1) : IsoBackfill(s, b)
    \/ \E s \in IsoSymbols, r \in WalkDraws : IsoTick(s, r, DrawUp)
    \/ \E s \in IsoSymbols : IsoPreload(s, "1m")
    \/ \E s \in IsoSymbols : IsoProfile(s)

SpecIso == IsoInit /\ [][IsoNext]_vars

\* the generator fields the price process of a symbol lives in
PriceState(g) ==
    <<g.currentPrice, g.currentTime, g.priceHistory, g.historicalCandles,
      g.lastProcessedPrice, g.atrCache>>

\* C27: a symbol has one generator, created on first reference and never
\* replaced, and an operation on one symbol leaves the currentPrice,
\* currentTime, price history, candle window, last-significant price and ATR
\* cache of every other symbol unchanged
C27_SymbolIsolation ==
    [][\A a \in IsoSymbols :
          genRet'.symbol = a =>
             /\ a \in DOMAIN generators'
             /\ (a \in DOMAIN generators /\ genRet'.op \in {"preload", "profile"}) =>
                   PriceState(generators'[a]) = PriceState(generators[a])
             /\ (a \notin DOMAIN generators /\ genRet'.op \in {"preload", "profile"}) =>
                   PriceState(generators'[a])
                      = PriceState(TestDataGenerator(getBasePriceForSymbol(a) * Scale))
             /\ \A b \in IsoSymbols \ {a} :
                   /\ b \in DOMAIN generators =>
                         /\ b \in DOMAIN generators'
                         /\ generators'[b] = generators[b]
                   /\ b \notin DOMAIN generators => b \notin DOMAIN generators']_vars

\* a tick of one symbol emitted a candle while the other symbol's generator
\* holds candles of its own
C27_Witness ==
    /\ genRet.op = "tick"
    /\ genRet.ret # <<>>
    /\ DOMAIN generators = IsoSymbols
    /\ \A s \in IsoSymbols : generators[s].historicalCandles # <<>>
    /\ generators["LTCUSDT"].currentPrice # generators["XYZUSDT"].currentPrice

---------------------------------------------------------------------------
\* two connections subscribing to two keys and leaving; no tick is followed
LeaveNext ==
    \/ \E ws \in Conns : addConnection(ws)
    \/ \E ws \in Conns : SocketClosing(ws)
    \/ \E ws \in Conns : OnError(ws)
    \/ \E ws \in Conns : OnClose(ws)
    \/ \E s \in Symbols, i \in KeyIntervals, ws \in Conns :
          subscribeToSymbol(s, i, ws, 67500)
    \/ \E id \in 1..MaxStreams : SeedSaved(id)
    \/ \E id \in 1..MaxStreams : SeedSaveFailed(id)

SpecLeave == Init /\ [][LeaveNext]_vars

\* C28: when removeConnection(ws) returns, ws is in neither the connection set
\* nor any subscriber set and no key maps to an empty subscriber set; the
\* subscriber sets and timers of keys that keep other subscribers are
\* unchanged; a second removeConnection(ws), close after error, changes nothing
C28_RemoveConnection ==
    [][\A ws \in Conns :
          (OnClose(ws) \/ OnError(ws)) =>
             /\ ws \notin connections'
             /\ \A k \in DOMAIN subscriptions' :
                   ~SetHas(subscriptions'[k], ws) /\ subscriptions'[k] # <<>>
             /\ \A k \in DOMAIN subscriptions :
                   Elems(subscriptions[k]) \ {ws} # {} =>
                      /\ k \in DOMAIN subscriptions'
                      /\ subscriptions'[k] = SetDelete(subscriptions[k], ws)
                      /\ (k \in DOMAIN updateIntervals) = (k \in DOMAIN updateIntervals')
                      /\ k \in DOMAIN updateIntervals =>
                            /\ updateIntervals'[k] = updateIntervals[k]
                            /\ (updateIntervals[k] \in activeTimers)
                                  = (updateIntervals[k] \in activeTimers')
             /\ (ws \notin connections /\ readyState[ws] = "CLOSING") =>
                   UNCHANGED <<connections, subscriptions, updateIntervals,
                               activeTimers>>]_vars

\* ws1 was removed by its error handler: the key only ws1 subscribed to is
\* gone and its timer cleared, while ws2 is still subscribed to the other key
\* and the timer of that key is running
C28_Witness ==
    /\ readyState["ws1"] = "CLOSING"
    /\ "ws1" \notin connections
    /\ readyState["ws2"] = "OPEN"
    /\ \E id \in 1..Len(streams) :
          /\ streams[id].pc = "scheduled"
          /\ streams[id].key \notin DOMAIN subscriptions
          /\ id \notin activeTimers
    /\ \E k \in DOMAIN subscriptions :
          /\ subscriptions[k] = <<"ws2">>
          /\ k \in DOMAIN updateIntervals
          /\ updateIntervals[k] \in activeTimers

---------------------------------------------------------------------------
\* the step is a tick of the key
TickOf(key) ==
    \E id \in 1..MaxStreams, p \in Prices :
       /\ id \in 1..Len(streams)
       /\ streams[id].key = key
       /\ TimerFire(id, p)

\* C29: while a key is live (subscribed, its timer running), the generator of
\* its symbol, current price and gate state included, is changed by the ticks
\* of that key only: not by the start of a stream for another interval of the
\* symbol and not by a tick of that other key
C29_OnlyOwnTicks ==
    [][\A id \in 1..MaxStreams :
          (/\ id \in activeTimers
           /\ streams[id].key \in DOMAIN subscriptions
           /\ ~TickOf(streams[id].key)) =>
             dataGenerators'[KeySymbol(streams[id].key)]
                = dataGenerators[KeySymbol(streams[id].key)]]_vars

---------------------------------------------------------------------------
\* C30: once a generator has emitted a candle, every generateRealtimeUpdate
\* either emits a candle, and the last-significant price is the current price,
\* or emits none, and the current price is within 0.05% of the last-significant
\* price, the price of the last candle a tick emitted; so moves that are
\* insignificant one by one are emitted as soon as they add up to more
C30_DriftBounded ==
    \A s \in GenSymbols :
       (genRet.op = "tick" /\ genRet.symbol = s) =>
          /\ genLog[s].emitted # <<>>
          /\ LET last == genLog[s].emitted[Len(genLog[s].emitted)].open
                 g == generators[s]
             IN /\ g.lastProcessedPrice["BTCUSDT"] = last
                /\ genRet.ret # <<>> => last = g.currentPrice
                /\ genRet.ret = <<>> => Abs(g.currentPrice - last) * 10000 <= 5 * last

\* a tick whose own move is below the threshold emitted a candle, because
\* the move since the last emitted candle is above it
C30_Witness ==
    \E s \in GenSymbols :
       LET h == generators[s].priceHistory
       IN /\ genRet.op = "tick"
          /\ genRet.ret # <<>>
          /\ genLog[s].ticks >= 3
          /\ genLog[s].ticks = genLog[s].ops
          /\ Abs(h[Len(h)] - h[Len(h) - 1]) * 10000 <= 5 * h[Len(h) - 1]


\* ------------------------------------------------ generateOrderBook, one call
\* the depths of ORDER_BOOK_DEPTHS up to 100; the hub asks for BookDepth
BookDepths == {5, 10, 20, BookDepth, 100}
BookSymbols == {"LTCUSDT", "XYZUSDT"}
\* Math.random() of the volume of a side, in thousandths
VolumeDraws == {0, 500, 999}

BookInputs ==
    [op : {"generateOrderBook"}, symbol : BookSymbols, depth : BookDepths,
     applyDepthFilter : BOOLEAN, v : [bid : VolumeDraws, ask : VolumeDraws]]

BookInit == Idle /\ input \in BookInputs /\ output = [op |-> "none"]

ApplyBook ==
    /\ input.op = "generateOrderBook"
    /\ output.op = "none"
    /\ output' = [op |-> "book",
                  book |-> TDG_generateOrderBook(
                               TestDataGenerator(getBasePriceForSymbol(input.symbol) * Scale),
                               input.depth, input.applyDepthFilter, input.v)]
    /\ UNCHANGED input
    /\ IdleUnchanged

SpecBook == BookInit /\ [][ApplyBook]_vars

\* C31: every level of an order book returned by generateOrderBook(depth,
\* filter) has volume >= 0, for every depth in use and every draw
C31_VolumesNonNegative ==
    output.op = "book" =>
       /\ \A i \in 1..Len(output.book.bids) : output.book.bids[i].volume >= 0
       /\ \A i \in 1..Len(output.book.asks) : output.book.asks[i].volume >= 0

\* up to depth 20 the factor 1 - i * 0.05 stays above zero
C31_ShallowVolumesNonNegative ==
    output.op = "book" /\ input.depth <= 20 =>
       /\ \A i \in 1..Len(output.book.bids) : output.book.bids[i].volume >= 0
       /\ \A i \in 1..Len(output.book.asks) : output.book.asks[i].volume >= 0

\* the book the hub broadcasts: 50 filtered levels a side, the 22nd one of
\* negative volume
C31_NegativeLevelBroadcast ==
    ~ /\ output.op = "book"
      /\ input.depth = BookDepth
      /\ input.applyDepthFilter
      /\ Len(output.book.bids) = BookDepth
      /\ output.book.bids[22].volume < 0

====
